---- MODULE Spec2Model ----
(***************************************************************************)
(* pewtils.http: canonical_link, trim_get_parameters and the tables they   *)
(* read, as a state machine over an arbitrary HTTP client.                 *)
(*                                                                         *)
(* A Python string is a sequence of one-character strings, so that prefix, *)
(* substring, splitting, URL parsing and percent-coding are computed the   *)
(* way the code computes them.                                             *)
(***************************************************************************)
EXTENDS Integers, Sequences, FiniteSets, TLC

\* ------------------------------------------------------------------ strings

UPPERCASE ==
  <<"A","B","C","D","E","F","G","H","I","J","K","L","M",
    "N","O","P","Q","R","S","T","U","V","W","X","Y","Z">>

LOWERCASE ==
  <<"a","b","c","d","e","f","g","h","i","j","k","l","m",
    "n","o","p","q","r","s","t","u","v","w","x","y","z">>

Letters ==
  { UPPERCASE[i] : i \in DOMAIN UPPERCASE } \cup { LOWERCASE[i] : i \in DOMAIN LOWERCASE }

Digits ==
  {"0","1","2","3","4","5","6","7","8","9"}

\* str.startswith(p)
startswith(s, p) ==
  Len(s) >= Len(p) /\ SubSeq(s, 1, Len(p)) = p

\* the least element of a finite set of positions, 0 for the empty set
first_of(S) ==
  IF S = {} THEN 0 ELSE CHOOSE x \in S : \A y \in S : x <= y

\* str.find(sub) + 1: the 1-based position of the first occurrence, 0 when there is none
find(s, sub) ==
  first_of({ j \in 1..(Len(s) - Len(sub) + 1) : SubSeq(s, j, j + Len(sub) - 1) = sub })

\* sub in s
contains(s, sub) ==
  find(s, sub) # 0

lowerChar(c) ==
  IF \E j \in DOMAIN UPPERCASE : UPPERCASE[j] = c
  THEN LOWERCASE[CHOOSE j \in DOMAIN UPPERCASE : UPPERCASE[j] = c]
  ELSE c

upperChar(c) ==
  IF \E j \in DOMAIN LOWERCASE : LOWERCASE[j] = c
  THEN UPPERCASE[CHOOSE j \in DOMAIN LOWERCASE : LOWERCASE[j] = c]
  ELSE c

\* str.lower()
lower(s) ==
  [j \in 1..Len(s) |-> lowerChar(s[j])]

\* the part of s before position p, and the part from position p + n on (p = 0: no cut)
cut_before(s, p) ==
  IF p = 0 THEN s ELSE SubSeq(s, 1, p - 1)

cut_after(s, p, n) ==
  IF p = 0 THEN <<>> ELSE SubSeq(s, p + n, Len(s))

\* s.split(sep, 1)[0] and s.split(sep, 1)[1] (empty when sep does not occur)
before(s, sep) ==
  cut_before(s, find(s, sep))

after(s, sep) ==
  cut_after(s, find(s, sep), Len(sep))

\* str.split(sep)
RECURSIVE split(_, _)
split(s, sep) ==
  IF contains(s, sep) THEN <<before(s, sep)>> \o split(after(s, sep), sep) ELSE <<s>>

\* re.sub(old, new, s) for a literal pattern: every non-overlapping occurrence, left to right
RECURSIVE re_sub(_, _, _)
re_sub(old, new, s) ==
  IF s = <<>> THEN <<>>
  ELSE IF startswith(s, old)
       THEN new \o re_sub(old, new, SubSeq(s, Len(old) + 1, Len(s)))
       ELSE <<Head(s)>> \o re_sub(old, new, Tail(s))

\* the elements of a finite set of numbers in increasing order
RECURSIVE sorted(_)
sorted(S) ==
  IF S = {} THEN <<>> ELSE <<first_of(S)>> \o sorted(S \ {first_of(S)})

\* ------------------------------------------------------------------ urllib.parse

S_http ==
  <<"h","t","t","p">>

S_https ==
  <<"h","t","t","p","s">>

S_ftp ==
  <<"f","t","p">>

SCHEME_CHARS ==
  Letters \cup Digits \cup {"+", "-", "."}

USES_NETLOC ==
  { S_http, S_https, S_ftp }

\* urlsplit: the position of the ':' that ends a scheme at the start of url, 0 without one
scheme_colon(url, c) ==
  IF c > 1 /\ url[1] \in Letters /\ \A j \in 1..(c - 1) : url[j] \in SCHEME_CHARS
  THEN c ELSE 0

\* urlsplit: the length of the netloc of "//netloc..." (up to the first of / ? #)
netloc_len(r, delims) ==
  IF delims = {} THEN Len(r) - 2 ELSE first_of(delims) - 3

\* urlsplit: path, query and fragment of what follows scheme and netloc
url_record(scheme, netloc, r, r_nofrag) ==
  [ scheme   |-> scheme,
    netloc   |-> netloc,
    path     |-> before(r_nofrag, <<"?">>),
    query    |-> after(r_nofrag, <<"?">>),
    fragment |-> after(r, <<"#">>) ]

url_after_netloc(scheme, netloc, r) ==
  url_record(scheme, netloc, r, before(r, <<"#">>))

url_after_scheme(scheme, r, n) ==
  IF startswith(r, <<"/","/">>)
  THEN url_after_netloc(scheme, SubSeq(r, 3, 2 + n), SubSeq(r, 3 + n, Len(r)))
  ELSE url_after_netloc(scheme, <<>>, r)

url_with_scheme(scheme, r) ==
  url_after_scheme(scheme, r,
                   netloc_len(r, { j \in 3..Len(r) : r[j] \in {"/", "?", "#"} }))

url_from_colon(url, c) ==
  IF c = 0 THEN url_with_scheme(<<>>, url)
  ELSE url_with_scheme(lower(SubSeq(url, 1, c - 1)), SubSeq(url, c + 1, Len(url)))

(* urlparse(url): scheme, netloc, path, query and fragment as urlsplit cuts them.  The
   URLs of the model hold no ';', so the params component is always empty and left out. *)
urlparse(url) ==
  url_from_colon(url, scheme_colon(url, find(url, <<":">>)))

\* urlunsplit: "//netloc" before the path when there is a netloc or the scheme expects one
with_netloc(p) ==
  IF p.netloc # <<>> \/ (p.scheme \in USES_NETLOC /\ ~startswith(p.path, <<"/","/">>))
  THEN <<"/","/">> \o p.netloc
       \o (IF p.path # <<>> /\ Head(p.path) # "/" THEN <<"/">> ELSE <<>>) \o p.path
  ELSE p.path

\* urlunparse(parsed)
urlunparse(p) ==
  (IF p.scheme # <<>> THEN p.scheme \o <<":">> ELSE <<>>)
    \o with_netloc(p)
    \o (IF p.query # <<>> THEN <<"?">> \o p.query ELSE <<>>)
    \o (IF p.fragment # <<>> THEN <<"#">> \o p.fragment ELSE <<>>)

(* The percent-escapes of the characters that occur in the model's URLs outside the
   unreserved set: <<character, first hex digit, second hex digit>>. *)
PERCENT_CODES ==
  { <<" ","2","0">>, <<"#","2","3">>, <<"%","2","5">>, <<"&","2","6">>, <<"+","2","B">>,
    <<"/","2","F">>, <<":","3","A">>, <<"=","3","D">>, <<"?","3","F">> }

\* the escapes of PERCENT_CODES written %ab (either case of the hex letters)
escapes(a, b) ==
  { c \in PERCENT_CODES : c[2] = upperChar(a) /\ c[3] = upperChar(b) }

\* urllib.parse.unquote: %XX becomes its character; an escape outside the table stays as written
RECURSIVE unquote(_)
unquote(s) ==
  IF s = <<>> THEN <<>>
  ELSE IF s[1] = "%" /\ Len(s) >= 3 /\ escapes(s[2], s[3]) # {}
       THEN <<(CHOOSE c \in escapes(s[2], s[3]) : TRUE)[1]>> \o unquote(SubSeq(s, 4, Len(s)))
       ELSE <<s[1]>> \o unquote(Tail(s))

\* s.replace('+', ' ')
plus_to_space(s) ==
  [j \in 1..Len(s) |-> IF s[j] = "+" THEN " " ELSE s[j]]

\* quote_plus of one character: letters, digits and _.-~ stay, a space becomes '+', the rest %XX
quote_char(c) ==
  IF c \in Letters \cup Digits \cup {"_", ".", "-", "~"} THEN <<c>>
  ELSE IF c = " " THEN <<"+">>
  ELSE <<"%">> \o Tail(CHOOSE e \in PERCENT_CODES : e[1] = c)

\* urllib.parse.quote_plus
RECURSIVE quote_plus(_)
quote_plus(s) ==
  IF s = <<>> THEN <<>> ELSE quote_char(s[1]) \o quote_plus(Tail(s))

\* parse_qsl: a piece "name=value" with a value that is not blank
has_value(nv) ==
  contains(nv, <<"=">>) /\ after(nv, <<"=">>) # <<>>

\* parse_qsl: name and value of the pieces kept, '+' and percent-escapes decoded
decoded(kept) ==
  [ j \in 1..Len(kept) |->
      << unquote(plus_to_space(before(kept[j], <<"=">>))),
         unquote(plus_to_space(after(kept[j], <<"=">>))) >> ]

(* parse_qsl(qs): the (name, value) pairs of a query string in order.  A piece without '='
   and a piece with a blank value are left out (keep_blank_values is False). *)
parse_qsl(qs) ==
  decoded(SelectSeq(split(qs, <<"&">>), has_value))

\* parse_qs: the values of name n, in order
values_of(pairs, n) ==
  [ j \in 1..Cardinality({ m \in 1..Len(pairs) : pairs[m][1] = n }) |->
      pairs[CHOOSE m \in 1..Len(pairs) :
              /\ pairs[m][1] = n
              /\ Cardinality({ l \in 1..m : pairs[l][1] = n }) = j][2] ]

\* parse_qs: one item per name, at the positions order where each name first occurs
grouped(pairs, order) ==
  [ j \in 1..Len(order) |->
      [ k |-> pairs[order[j]][1], v |-> values_of(pairs, pairs[order[j]][1]) ] ]

first_occurrences(pairs) ==
  { j \in 1..Len(pairs) : \A m \in 1..(j - 1) : pairs[m][1] # pairs[j][1] }

parse_pairs(pairs) ==
  grouped(pairs, sorted(first_occurrences(pairs)))

(* parse_qs(qs): the dictionary name -> list of values, as the sequence of its items in
   insertion order (the order in which each name first occurs). *)
parse_qs(qs) ==
  parse_pairs(parse_qsl(qs))

\* urlencode(d) of a dictionary given as the sequence of its (name, value) items
RECURSIVE urlencode(_)
urlencode(items) ==
  IF items = <<>> THEN <<>>
  ELSE quote_plus(items[1][1]) \o <<"=">> \o quote_plus(items[1][2])
       \o (IF Len(items) > 1 THEN <<"&">> \o urlencode(Tail(items)) ELSE <<>>)

\* ------------------------------------------------------------------ the shortener tables

(* GENERAL_LINK_SHORTENERS: the list of known generic URL shorteners.  The source list
   repeats bit.do, fw.to and ht.ly; membership is all the code asks of it. *)

GENERAL_LINK_SHORTENERS ==
  { <<"a","b","r","e",".","a","i">>,
    <<"a","d","f",".","l","y">>,
    <<"b","i","t",".","d","o">>,
    <<"b","i","t",".","l","y">>,
    <<"b","u","f","f",".","l","y">>,
    <<"c","r","w","d",".","f","r">>,
    <<"c","u","t","t",".","l","y">>,
    <<"d","i","s","q",".","u","s">>,
    <<"d","l","v","r",".","i","t">>,
    <<"e","v","e","r","y",".","t","w">>,
    <<"f","l","i","p",".","i","t">>,
    <<"f","w",".","t","o">>,
    <<"f","w","d","a","g","a",".","i","n">>,
    <<"g","o","o",".","g","l">>,
    <<"h","t",".","l","y">>,
    <<"h","u","b",".","a","m">>,
    <<"h","u","b","s",".","l","y">>,
    <<"i","s",".","g","d">>,
    <<"j",".","m","p">>,
    <<"l","o","o","m",".","l","y">>,
    <<"m","s","g","p",".","p","l">>,
    <<"m","v","n","t",".","u","s">>,
    <<"o","r","a",".","c","l">>,
    <<"o","w",".","l","y">>,
    <<"o","w","l",".","l","i">>,
    <<"p","o",".","s","t">>,
    <<"q","o","o",".","l","y">>,
    <<"s","c","r",".","b","i">>,
    <<"s","h","a","r",".","e","s">>,
    <<"s","h","o","o",".","l","y">>,
    <<"s","h","o","u","t",".","l","t">>,
    <<"s","h","r",".","g","s">>,
    <<"s","n","i","p",".","l","y">>,
    <<"s","n","p",".","t","v">>,
    <<"s","p","r",".","l","y">>,
    <<"s","u",".","p","r">>,
    <<"t",".","c","o">>,
    <<"t","i","n","y",".","c","c">>,
    <<"t","r","i","b",".","a","l">>,
    <<"t","r","i","b",".","i","t">>,
    <<"u","r","l","m",".","i","n">>,
    <<"w","p",".","m","e">> }

(* The dictionary literal of VANITY_LINK_SHORTENERS: (shortened, expanded) pairs. *)

VANITY_LITERAL ==
  { <<<<"a","b",".","c","o">>, <<"a","b","c",".","n","e","t",".","a","u">>>>,
    <<<<"a","j","e",".","i","o">>, <<"a","l","j","a","z","e","e","r","a",".","c","o","m">>>>,
    <<<<"a","m","p","r",".","g","s">>, <<"a","m","e","r","i","c","a","n","p","r","o","g","r","e","s","s",".","o","r","g">>>>,
    <<<<"a","m","z","n",".","c","o","m">>, <<"a","m","a","z","o","n",".","c","o","m">>>>,
    <<<<"a","m","z","n",".","t","o">>, <<"a","m","a","z","o","n",".","c","o","m">>>>,
    <<<<"a","p",".","o","r","g">>, <<"a","p","n","e","w","s",".","c","o","m">>>>,
    <<<<"a","p","n","e",".","w","s">>, <<"a","p","n","e","w","s",".","c","o","m">>>>,
    <<<<"a","t","x","n","e",".","w","s">>, <<"s","t","a","t","e","s","m","a","n",".","c","o","m">>>>,
    <<<<"a","z","c",".","c","c">>, <<"a","z","c","e","n","t","r","a","l",".","c","o","m">>>>,
    <<<<"b","a","y","a","r","e","a","n","e",".","w","s">>, <<"e","a","s","t","b","a","y","t","i","m","e","s",".","c","o","m">>>>,
    <<<<"b","b","c",".","i","n">>, <<"b","b","c",".","c","o",".","u","k">>>>,
    <<<<"b","c","o","v","e",".","m","e">>, <<"b","r","i","g","h","t","c","o","v","e",".","c","o","m">>>>,
    <<<<"b","e","r","n","i","e",".","t","o">>, <<"b","e","r","n","i","e","s","a","n","d","e","r","s",".","c","o","m">>>>,
    <<<<"b","i","z","j",".","u","s">>, <<"b","i","z","j","o","u","r","n","a","l","s",".","c","o","m">>>>,
    <<<<"b","l","e",".","a","c">>, <<"b","l","e","a","c","h","e","r","r","e","p","o","r","t",".","c","o","m">>>>,
    <<<<"b","l","o","o","m",".","b","g">>, <<"b","l","o","o","m","b","e","r","g",".","c","o","m">>>>,
    <<<<"b","r","o","o","k",".","g","s">>, <<"b","r","o","o","k","i","n","g","s",".","e","d","u">>>>,
    <<<<"b","s","u","n",".","m","d">>, <<"b","a","l","t","i","m","o","r","e","s","u","n",".","c","o","m">>>>,
    <<<<"b","u","s","w","k",".","c","o">>, <<"b","l","o","o","m","b","e","r","g",".","c","o","m">>>>,
    <<<<"b","v",".","m","s">>, <<"b","l","o","o","m","b","e","r","g",".","c","o","m">>>>,
    <<<<"r","e","a","d",".","b","i">>, <<"b","u","s","i","n","e","s","s","i","n","s","i","d","e","r",".","c","o","m">>>>,
    <<<<"b","z","f","d",".","i","t">>, <<"b","u","z","z","f","e","e","d",".","c","o","m">>>>,
    <<<<"c","-","s","p","a","n","v","i","d","e","o",".","o","r","g">>, <<"c","-","s","p","a","n",".","o","r","g">>>>,
    <<<<"c","b","s","l","o","c",".","a","l">>, <<"c","b","s","l","o","c","a","l",".","c","o","m">>>>,
    <<<<"c","b","s","n",".","w","s">>, <<"c","b","s","n","e","w","s",".","c","o","m">>>>,
    <<<<"c","h","n",".","g","e">>, <<"c","h","a","n","g","e",".","o","r","g">>>>,
    <<<<"c","h","n","g",".","i","t">>, <<"c","h","a","n","g","e",".","o","r","g">>>>,
    <<<<"t","r","i","b",".","i","n">>, <<"c","h","i","c","a","g","o","t","r","i","b","u","n","e",".","c","o","m">>>>,
    <<<<"c","n","b",".","c","x">>, <<"c","n","b","c",".","c","o","m">>>>,
    <<<<"c","n","n",".","i","t">>, <<"c","n","n",".","c","o","m">>>>,
    <<<<"c","n","n","m","o","n",".","i","e">>, <<"c","n","n",".","c","o","m">>>>,
    <<<<"c","o","m","s","e","n",".","s","e">>, <<"c","o","m","m","o","n","s","e","n","s","e","m","e","d","i","a",".","o","r","g">>>>,
    <<<<"c","o","n","t","a",".","c","c">>, <<"c","o","n","s","t","a","n","t","c","o","n","t","a","c","t",".","c","o","m">>>>,
    <<<<"c","o","u","r",".","a","t">>, <<"c","o","u","r","a","n","t",".","c","o","m">>>>,
    <<<<"d","a","i",".","l","y">>, <<"d","a","i","l","y","m","o","t","i","o","n",".","c","o","m">>>>,
    <<<<"d","a","i","l","y","m",".","a","i">>, <<"d","a","i","l","y","m","a","i","l",".","c","o",".","u","k">>>>,
    <<<<"m","o","l",".","i","m">>, <<"d","a","i","l","y","m","a","i","l",".","c","o",".","u","k">>>>,
    <<<<"d","a","i","l","y","s","i","g","n",".","a","l">>, <<"d","a","i","l","y","s","i","g","n","a","l",".","c","o","m">>>>,
    <<<<"d","b","t","g",".","t","v">>, <<"b","u","n","d","e","s","t","a","g",".","d","e">>>>,
    <<<<"d","e","l","o","n","l","i","n","e",".","u","s">>, <<"d","e","l","a","w","a","r","e","o","n","l","i","n","e",".","c","o","m">>>>,
    <<<<"d","e","t","n","e",".","w","s">>, <<"d","e","t","r","o","i","t","n","e","w","s",".","c","o","m">>>>,
    <<<<"d","m","r","e","g",".","c","o">>, <<"d","e","s","m","o","i","n","e","s","r","e","g","i","s","t","e","r",".","c","o","m">>>>,
    <<<<"d","p","o",".","s","t">>, <<"d","e","n","v","e","r","p","o","s","t",".","c","o","m">>>>,
    <<<<"e","c","o","n",".","s","t">>, <<"e","c","o","n","o","m","i","s","t",".","c","o","m">>>>,
    <<<<"e","n","g","t",".","c","o">>, <<"e","n","g","a","d","g","e","t",".","c","o","m">>>>,
    <<<<"e","n","t","m",".","a","g">>, <<"e","n","t","r","e","p","r","e","n","e","u","r",".","c","o","m">>>>,
    <<<<"e","s",".","p","n">>, <<"e","s","p","n",".","c","o","m">>>>,
    <<<<"f","b",".","c","o","m">>, <<"f","a","c","e","b","o","o","k",".","c","o","m">>>>,
    <<<<"f","b",".","m","e">>, <<"f","a","c","e","b","o","o","k",".","c","o","m">>>>,
    <<<<"o","n",".","f","b",".","m","e">>, <<"f","a","c","e","b","o","o","k",".","c","o","m">>>>,
    <<<<"f","l","i","c",".","k","r">>, <<"f","l","i","c","k","r",".","c","o","m">>>>,
    <<<<"o","n","f","o","r","b",".","e","s">>, <<"f","o","r","b","e","s",".","c","o","m">>>>,
    <<<<"f","x","n",".","w","s">>, <<"f","o","x","n","e","w","s",".","c","o","m">>>>,
    <<<<"g","i","z","m","o",".","d","o">>, <<"g","i","z","m","o","d","o",".","c","o","m">>>>,
    <<<<"g","l","o",".","b","o">>, <<"g","l","o","b","o",".","c","o","m">>>>,
    <<<<"g","m","a",".","a","b","c">>, <<"g","o","o","d","m","o","r","n","i","n","g","a","m","e","r","i","c","a",".","c","o","m">>>>,
    <<<<"g","o","l","d","e","n","i","s","l","e","s",".","n","e","w","s">>, <<"t","h","e","b","r","u","n","s","w","i","c","k","n","e","w","s",".","c","o","m">>>>,
    <<<<"g","p","h",".","i","s">>, <<"g","i","p","h","y",".","c","o","m">>>>,
    <<<<"g","r","n","o","l",".","c","o">>, <<"g","r","e","e","n","v","i","l","l","e","o","n","l","i","n","e",".","c","o","m">>>>,
    <<<<"h","a","r","l","e","m",".","i","n">>, <<"h","a","r","l","e","m","u","n","i","t","e","d",".","o","r","g">>>>,
    <<<<"h","e","r","i","t",".","a","g">>, <<"h","e","r","i","t","a","g","e",".","o","r","g">>>>,
    <<<<"h","i","l","l",".","c","m">>, <<"t","h","e","h","i","l","l",".","c","o","m">>>>,
    <<<<"h","i","s","t","v",".","c","o">>, <<"h","i","s","t","o","r","y",".","c","o","m">>>>,
    <<<<"h","u","f","f",".","t","o">>, <<"h","u","f","f","i","n","g","t","o","n","p","o","s","t",".","c","o","m">>>>,
    <<<<"h","u","f","f","p",".","s","t">>, <<"h","u","f","f","i","n","g","t","o","n","p","o","s","t",".","c","o","m">>>>,
    <<<<"h","u","f","f","p","o","s","t",".","c","o","m">>, <<"h","u","f","f","i","n","g","t","o","n","p","o","s","t",".","c","o","m">>>>,
    <<<<"h","u","l","u",".","t","v">>, <<"h","u","l","u",".","c","o","m">>>>,
    <<<<"i","c","o","n","t",".","a","c">>, <<"i","c","o","n","t","a","c","t","-","a","r","c","h","i","v","e",".","c","o","m">>>>,
    <<<<"i","h","r",".","f","m">>, <<"i","h","e","a","r","t",".","c","o","m">>>>,
    <<<<"i","n","d",".","p","n">>, <<"i","n","d","e","p","e","n","d","e","n","t",".","c","o",".","u","k">>>>,
    <<<<"i","n","d","y",".","s","t">>, <<"i","n","d","y","s","t","a","r",".","c","o","m">>>>,
    <<<<"i","n","j","o",".","c","o","m">>, <<"i","j","r",".","c","o","m">>>>,
    <<<<"i","n","s","t","a","g","r",".","a","m">>, <<"i","n","s","t","a","g","r","a","m",".","c","o","m">>>>,
    <<<<"i","n","t","e","r","c",".","p","t">>, <<"t","h","e","i","n","t","e","r","c","e","p","t",".","c","o","m">>>>,
    <<<<"j","r","n","l",".","i","e">>, <<"t","h","e","j","o","u","r","n","a","l",".","i","e">>>>,
    <<<<"l","a","t",".","m","s">>, <<"l","a","t","i","m","e","s",".","c","o","m">>>>,
    <<<<"l","i","n","k","d",".","i","n">>, <<"l","i","n","k","e","d","i","n",".","c","o","m">>>>,
    <<<<"l","n","k","d",".","i","n">>, <<"l","i","n","k","e","d","i","n",".","c","o","m">>>>,
    <<<<"l","p",".","c","a">>, <<"l","a","p","r","e","s","s","e",".","c","a">>>>,
    <<<<"m",".","m","e">>, <<"m","e","s","s","e","n","g","e","r",".","c","o","m">>>>,
    <<<<"m","a","i","l","c","h","i",".","m","p">>, <<"m","a","i","l","c","h","i","m","p",".","c","o","m">>>>,
    <<<<"m","a","p","q",".","s","t">>, <<"m","a","p","q","u","e","s","t",".","c","o","m">>>>,
    <<<<"m","e","e","t","u",".","p","s">>, <<"m","e","e","t","u","p",".","c","o","m">>>>,
    <<<<"n",".","p","r">>, <<"n","p","r",".","o","r","g">>>>,
    <<<<"n","b","c","n","e","w","s",".","t","o">>, <<"n","b","c","n","e","w","s",".","c","o","m">>>>,
    <<<<"o","h","n","e",".","w","s">>, <<"n","e","w","a","r","k","a","d","v","o","c","a","t","e",".","c","o","m">>>>,
    <<<<"n","e","w","s","p","r",".","e","s">>, <<"n","e","w","s","-","p","r","e","s","s",".","c","o","m">>>>,
    <<<<"n","j","-","n","e",".","w","s">>, <<"n","j",".","c","o","m">>>>,
    <<<<"n","j","e","r","s","y",".","c","o">>, <<"n","o","r","t","h","j","e","r","s","e","y",".","c","o","m">>>>,
    <<<<"n","w","s","d","y",".","l","i">>, <<"n","e","w","s","d","a","y",".","c","o","m">>>>,
    <<<<"n","y","d","n",".","u","s">>, <<"n","y","d","a","i","l","y","n","e","w","s",".","c","o","m">>>>,
    <<<<"n","y","p",".","s","t">>, <<"n","y","p","o","s","t",".","c","o","m">>>>,
    <<<<"n","y","t","i",".","m","s">>, <<"n","y","t","i","m","e","s",".","c","o","m">>>>,
    <<<<"p","d","o","r","a",".","c","o">>, <<"p","a","n","d","o","r","a",".","c","o","m">>>>,
    <<<<"p","e","w","r","s","r",".","c","h">>, <<"p","e","w","r","e","s","e","a","r","c","h",".","o","r","g">>>>,
    <<<<"p","o","l","i","t","i",".","c","o">>, <<"p","o","l","i","t","i","c","o",".","c","o","m">>>>,
    <<<<"p","r","n",".","t","o">>, <<"p","r","n","e","w","s","w","i","r","e",".","c","o","m">>>>,
    <<<<"r","e","u","t",".","r","s">>, <<"r","e","u","t","e","r","s",".","c","o","m">>>>,
    <<<<"r","o","l",".","s","t">>, <<"r","o","l","l","i","n","g","s","t","o","n","e",".","c","o","m">>>>,
    <<<<"s","e","n",".","g","o","v">>, <<"s","e","n","a","t","e",".","g","o","v">>>>,
    <<<<"s","l","a","t","e",".","m","e">>, <<"s","l","a","t","e",".","c","o","m">>>>,
    <<<<"s","p","o","n",".","d","e">>, <<"s","p","i","e","g","e","l",".","d","e">>>>,
    <<<<"s","p","o","t","i",".","f","i">>, <<"s","p","o","t","i","f","y",".","c","o","m">>>>,
    <<<<"s","t",".","n","e","w","s">>, <<"s","e","a","t","t","l","e","t","i","m","e","s",".","c","o","m">>>>,
    <<<<"s","t","j","r",".","n","l">>, <<"s","t","a","t","e","s","m","a","n","j","o","u","r","n","a","l",".","c","o","m">>>>,
    <<<<"s","t","r","i","b",".","m","n">>, <<"s","t","a","r","t","r","i","b","u","n","e",".","c","o","m">>>>,
    <<<<"t","a","n","n","o","s",".","m","x">>, <<"y","a","r","i","t","h","t","a","n","n","o","s",".","c","o","m">>>>,
    <<<<"t","g","a","m",".","c","a">>, <<"t","h","e","g","l","o","b","e","a","n","d","m","a","i","l",".","c","o","m">>>>,
    <<<<"t","h","e","a","t","l","n",".","t","c">>, <<"t","h","e","a","t","l","a","n","t","i","c",".","c","o","m">>>>,
    <<<<"t","h","e","b","e","a",".","s","t">>, <<"t","h","e","d","a","i","l","y","b","e","a","s","t",".","c","o","m">>>>,
    <<<<"t","h","k","p","r",".","g","s">>, <<"t","h","i","n","k","p","r","o","g","r","e","s","s",".","o","r","g">>>>,
    <<<<"t","i",".","m","e">>, <<"t","i","m","e",".","c","o","m">>>>,
    <<<<"t","l","m","d","o",".","c","o">>, <<"t","e","l","e","m","u","n","d","o",".","c","o","m">>>>,
    <<<<"w","t","r","n","e",".","w","s">>, <<"t","i","m","e","s","r","e","c","o","r","d","n","e","w","s",".","c","o","m">>>>,
    <<<<"t","n","w",".","t","o">>, <<"t","h","e","n","e","x","t","w","e","b",".","c","o","m">>>>,
    <<<<"t","w","s",".","i","o">>, <<"w","e","e","k","l","y","s","t","a","n","d","a","r","d",".","c","o","m">>>>,
    <<<<"t","x","n","n","e",".","w","s">>, <<"t","h","e","t","e","x","a","n",".","n","e","w","s">>>>,
    <<<<"u",".","p","w">>, <<"u","p","w","o","r","t","h","y",".","c","o","m">>>>,
    <<<<"u","s","a","t",".","l","y">>, <<"u","s","a","t","o","d","a","y",".","c","o","m">>>>,
    <<<<"u","s","m",".","a","g">>, <<"u","s","m","a","g","a","z","i","n","e",".","c","o","m">>>>,
    <<<<"v","i","r","g",".","i","n">>, <<"v","i","r","g","i","n",".","c","o","m">>>>,
    <<<<"w","a","s","h","e","x",".","a","m">>, <<"w","a","s","h","i","n","g","t","o","n","e","x","a","m","i","n","e","r",".","c","o","m">>>>,
    <<<<"w","e","f",".","c","h">>, <<"w","e","f","o","r","u","m",".","o","r","g">>>>,
    <<<<"w","h",".","g","o","v">>, <<"w","h","i","t","e","h","o","u","s","e",".","g","o","v">>>>,
    <<<<"w","r","d",".","c","m">>, <<"w","i","r","e","d",".","c","o","m">>>>,
    <<<<"w","t","r",".","i","e">>, <<"w","a","t","e","r",".","i","e">>>>,
    <<<<"y","h","o","o",".","i","t">>, <<"y","a","h","o","o",".","c","o","m">>>>,
    <<<<"y","o","u","t","u",".","b","e">>, <<"y","o","u","t","u","b","e",".","c","o","m">>>> }

(* HISTORICAL_VANITY_LINK_SHORTENERS: pairs no longer expected to resolve, kept for
   domain extraction. *)

HISTORICAL_VANITY_LINK_SHORTENERS ==
  { <<<<"a","b","c","n",".","w","s">>, <<"a","b","c","n","e","w","s",".","c","o","m">>>>,
    <<<<"c","j","k","y",".","i","t">>, <<"c","o","u","r","i","e","r","-","j","o","u","r","n","a","l",".","c","o","m">>>>,
    <<<<"c","s",".","p","n">>, <<"c","-","s","p","a","n",".","o","r","g">>>>,
    <<<<"d","-","n","e","w","s",".","c","o">>, <<"d","a","l","l","a","s","n","e","w","s",".","c","o","m">>>>,
    <<<<"d","o","t",".","g","o","v">>, <<"t","r","a","n","s","p","o","r","t","a","t","i","o","n",".","g","o","v">>>>,
    <<<<"e","w","a","r",".","r","e","n">>, <<"e","l","i","z","a","b","e","t","h","w","a","r","r","e","n",".","c","o","m">>>>,
    <<<<"f","a","n","d","a",".","c","o">>, <<"f","a","n","d","a","n","g","o",".","c","o","m">>>>,
    <<<<"g",".","c","o">>, <<"g","o","o","g","l","e",".","c","o","m">>>>,
    <<<<"h","r","c",".","i","o">>, <<"h","i","l","l","a","r","y","c","l","i","n","t","o","n",".","c","o","m">>>>,
    <<<<"h","r","l","d",".","u","s">>, <<"m","i","a","m","i","h","e","r","a","l","d",".","c","o","m">>>>,
    <<<<"h","u","c","k","a",".","b","e">>, <<"m","i","k","e","h","u","c","k","a","b","e","e",".","c","o","m">>>>,
    <<<<"j","w","a","t","c","h",".","u","s">>, <<"j","u","d","i","c","i","a","l","w","a","t","c","h",".","o","r","g">>>>,
    <<<<"n","a","t","l",".","i","o">>, <<"n","a","t","i","o","n","a","l","r","e","v","i","e","w",".","c","o","m">>>>,
    <<<<"n","w","s",".","m","x">>, <<"n","e","w","s","m","a","x",".","c","o","m">>>>,
    <<<<"n","y","e","r",".","c","m">>, <<"n","e","w","y","o","r","k","e","r",".","c","o","m">>>>,
    <<<<"o","f","a",".","b","o">>, <<"o","f","a",".","u","s">>>>,
    <<<<"m","a",".","u","s">>, <<"s","t","a","t","e",".","m","a",".","u","s">>>>,
    <<<<"m","d",".","u","s">>, <<"s","t","a","t","e",".","m","d",".","u","s">>>>,
    <<<<"m","n",".","u","s">>, <<"s","t","a","t","e",".","m","n",".","u","s">>>>,
    <<<<"n","m",".","u","s">>, <<"s","t","a","t","e",".","n","m",".","u","s">>>>,
    <<<<"n","y",".","u","s">>, <<"s","t","a","t","e",".","n","y",".","u","s">>>>,
    <<<<"o","h",".","u","s">>, <<"s","t","a","t","e",".","o","h",".","u","s">>>>,
    <<<<"p","a",".","u","s">>, <<"s","t","a","t","e",".","p","a",".","u","s">>>>,
    <<<<"p","t","r","t","v","o","i","c",".","e","s">>, <<"p","a","t","r","i","o","t","v","o","i","c","e","s",".","c","o","m">>>>,
    <<<<"r","u","b",".","i","o">>, <<"m","a","r","c","o","r","u","b","i","o",".","c","o","m">>>>,
    <<<<"t","o","n","y","r",".","c","o">>, <<"t","o","n","y","r","o","b","b","i","n","s",".","c","o","m">>>>,
    <<<<"u","n","i",".","v","i">>, <<"u","n","i","v","i","s","i","o","n",".","c","o","m">>>>,
    <<<<"w","a","p","o",".","s","t">>, <<"w","a","s","h","i","n","g","t","o","n","p","o","s","t",".","c","o","m">>>>,
    <<<<"w","p","o",".","s","t">>, <<"w","a","s","h","i","n","g","t","o","n","p","o","s","t",".","c","o","m">>>> }

(* VANITY_LINK_SHORTENERS.update(HISTORICAL_VANITY_LINK_SHORTENERS): no key occurs in both. *)

VANITY_LINK_SHORTENERS ==
  VANITY_LITERAL \cup HISTORICAL_VANITY_LINK_SHORTENERS

VANITY_KEYS ==
  { p[1] : p \in VANITY_LINK_SHORTENERS }

\* ------------------------------------------------------------------ canonical_link: constants

\* the mutation of BAD_STATUS_CODES that knows the client errors only
CLIENT_ERROR_CODES ==
  { 400, 404, 405, 407 }

BAD_STATUS_CODES ==
  {302, 307, 400, 404, 405, 407, 500, 501, 502, 503, 504, 520, 530}

\* the mutation of PROXY_REQUIRED that holds no status code
NO_STATUS_CODE ==
  {}

PROXY_REQUIRED ==
  {307, 407}

CHECK_LENGTH ==
  {301, 302, 200, 404}

\* "http://"
HTTP_PREFIX ==
  <<"h","t","t","p",":","/","/">>

\* "https://"
HTTPS_PREFIX ==
  <<"h","t","t","p","s",":","/","/">>

\* Python's None, and a value that is not None, for the nullable locals
None ==
  <<>>

Some(x) ==
  <<x>>

(* requests' exception classes as the code tells them apart: requests.ConnectionError (with
   its subclasses SSLError and ConnectTimeout), ReadTimeout, and errors that are neither. *)
CONNECTION_ERRORS ==
  {"ConnectionError", "SSLError", "ConnectTimeout"}

TRANSPORT_ERRORS ==
  CONNECTION_ERRORS \cup {"ReadTimeout"}

EXCEPTIONS ==
  TRANSPORT_ERRORS \cup {"TooManyRedirects"}

\* ------------------------------------------------------------------ the URLs of the model

\* "t.co/x"
I_tco ==
  <<"t",".","c","o","/","x">>

\* "httpbin.org/status/200"
I_httpbin ==
  <<"h","t","t","p","b","i","n",".","o","r","g","/","s","t","a","t","u","s","/","2","0","0">>

\* "https://bit.ly/x"
U_bitly ==
  <<"h","t","t","p","s",":","/","/","b","i","t",".","l","y","/","x">>

\* "https://short.ly/x"
U_shortly ==
  <<"h","t","t","p","s",":","/","/","s","h","o","r","t",".","l","y","/","x">>

\* "https://news.example.com/full/article/path"
U_article ==
  <<"h","t","t","p","s",":","/","/","n","e","w","s",".","e","x","a","m","p","l","e",".","c","o","m","/","f","u","l","l","/","a","r","t","i","c","l","e","/","p","a","t","h">>

\* "https://news.example.com/errors/404"
U_errors404 ==
  <<"h","t","t","p","s",":","/","/","n","e","w","s",".","e","x","a","m","p","l","e",".","c","o","m","/","e","r","r","o","r","s","/","4","0","4">>

\* "https://news.example.com/"
U_home ==
  <<"h","t","t","p","s",":","/","/","n","e","w","s",".","e","x","a","m","p","l","e",".","c","o","m","/">>

\* "https://news.example.com/a?ref=tw&id=1"
U_query ==
  <<"h","t","t","p","s",":","/","/","n","e","w","s",".","e","x","a","m","p","l","e",".","c","o","m","/","a","?","r","e","f","=","t","w","&","i","d","=","1">>

\* "https://l.ex.com/r?u=https%3A%2F%2Freal.example.com%2Fpage"
U_wrap_http ==
  <<"h","t","t","p","s",":","/","/","l",".","e","x",".","c","o","m","/","r","?","u","=","h","t","t","p","s","%","3","A","%","2","F","%","2","F","r","e","a","l",".","e","x","a","m","p","l","e",".","c","o","m","%","2","F","p","a","g","e">>

\* "https://l.ex.com/r?u=ftp%3A%2F%2Freal.example.com%2Fpage"
U_wrap_ftp ==
  <<"h","t","t","p","s",":","/","/","l",".","e","x",".","c","o","m","/","r","?","u","=","f","t","p","%","3","A","%","2","F","%","2","F","r","e","a","l",".","e","x","a","m","p","l","e",".","c","o","m","%","2","F","p","a","g","e">>

\* "https://l.ex.com/errors/404?u=https%3A%2F%2Freal.example.com%2Fpage"
U_wrap_404 ==
  <<"h","t","t","p","s",":","/","/","l",".","e","x",".","c","o","m","/","e","r","r","o","r","s","/","4","0","4","?","u","=","h","t","t","p","s","%","3","A","%","2","F","%","2","F","r","e","a","l",".","e","x","a","m","p","l","e",".","c","o","m","%","2","F","p","a","g","e">>

\* "https://real.example.com/page"
U_real ==
  <<"h","t","t","p","s",":","/","/","r","e","a","l",".","e","x","a","m","p","l","e",".","c","o","m","/","p","a","g","e">>

\* "https://httpbin.org/status/200"
T_plain ==
  <<"h","t","t","p","s",":","/","/","h","t","t","p","b","i","n",".","o","r","g","/","s","t","a","t","u","s","/","2","0","0">>

\* "https://httpbin.org/status/200?param=1"
T_param ==
  <<"h","t","t","p","s",":","/","/","h","t","t","p","b","i","n",".","o","r","g","/","s","t","a","t","u","s","/","2","0","0","?","p","a","r","a","m","=","1">>

\* "https://a.com/p?a=x/y&b=2"
T_two ==
  <<"h","t","t","p","s",":","/","/","a",".","c","o","m","/","p","?","a","=","x","/","y","&","b","=","2">>

\* "https://a.com/p?Id=7&u=http%3A%2F%2Fb.com&r=1"
T_mixed ==
  <<"h","t","t","p","s",":","/","/","a",".","c","o","m","/","p","?","I","d","=","7","&","u","=","h","t","t","p","%","3","A","%","2","F","%","2","F","b",".","c","o","m","&","r","=","1">>

\* "https://a.com/p?id=7&id=8&m=1&m=2&x=&r=1"
T_multi ==
  <<"h","t","t","p","s",":","/","/","a",".","c","o","m","/","p","?","i","d","=","7","&","i","d","=","8","&","m","=","1","&","m","=","2","&","x","=","&","r","=","1">>

\* "https://a.com/?a=1"
T_root ==
  <<"h","t","t","p","s",":","/","/","a",".","c","o","m","/","?","a","=","1">>

\* "errors/404"
S_errors404 ==
  <<"e","r","r","o","r","s","/","4","0","4">>

\* "document"
S_document ==
  <<"d","o","c","u","m","e","n","t">>

\* "article"
S_article ==
  <<"a","r","t","i","c","l","e">>

\* "id"
S_id ==
  <<"i","d">>

\* "qs"
S_qs ==
  <<"q","s">>

\* "html"
S_html ==
  <<"h","t","m","l">>

\* ------------------------------------------------------------------ bounds and inputs

\* the longest redirect history (intermediate hops plus the final response) the server gives
MaxHops ==
  3

\* the most embedded-URL restarts followed in one call
MaxRestarts ==
  1

Hop(status, u) ==
  [status_code |-> status, url |-> u]

(* The servers of the model.  Each is the set of hops (status code, effective URL) the
   HTTP client may report, in any order and with repetition, up to MaxHops per response. *)
SITE_NEWS ==
  { Hop(301, U_shortly), Hop(301, U_bitly), Hop(200, U_article),
    Hop(200, U_errors404), Hop(404, U_home), Hop(200, U_query) }

SITE_WRAP ==
  { Hop(301, U_bitly), Hop(302, U_wrap_ftp), Hop(307, U_wrap_http), Hop(200, U_real),
    Hop(200, U_wrap_404) }

\* "http://news.example.com/full/article/path"
U_article_http ==
  <<"h","t","t","p",":","/","/","n","e","w","s",".","e","x","a","m","p","l","e",".","c","o","m","/","f","u","l","l","/","a","r","t","i","c","l","e","/","p","a","t","h">>

\* "https://news.example.com/FULL/article/path"
U_article_caps ==
  <<"h","t","t","p","s",":","/","/","n","e","w","s",".","e","x","a","m","p","l","e",".","c","o","m","/","F","U","L","L","/","a","r","t","i","c","l","e","/","p","a","t","h">>

\* a chain that comes back to the article under another scheme and in other letter case
SITE_SAME ==
  { Hop(301, U_bitly), Hop(200, U_article), Hop(500, U_article_http), Hop(404, U_article_caps) }

\* a chain whose responses ask for a proxy, one of them on an error landing page
SITE_PROXY ==
  { Hop(301, U_query), Hop(407, U_errors404), Hop(407, U_home) }

SITES ==
  { SITE_NEWS, SITE_WRAP, SITE_PROXY, SITE_SAME }

CL_INPUTS ==
  { I_tco, I_httpbin, U_real }

TRIM_INPUTS ==
  { T_plain, T_param, T_two, T_mixed, T_multi, T_root }

Histories(hops) ==
  UNION { [1..n -> hops] : n \in 1..MaxHops }

\* ------------------------------------------------------------------ state

VARIABLES
  fn,               \* the function the caller invoked, by its name
  input,            \* the url argument of that call
  session_given,    \* whether the caller passed a session
  site,             \* the hops the HTTP client may report
  pc,               \* where the call stands
  callers,          \* the canonical_link calls waiting for their recursive call to return
  url,              \* canonical_link's url
  session,          \* the session in use: "None", "caller" (passed in) or "own" (created)
  close_session,    \* canonical_link's close_session, of the innermost call
  open_sessions,    \* the sessions that exist and are not closed
  history,          \* canonical_link's history; <<>> while response is None
  i,                \* position of the walk in history (1 is the first hop)
  last_good_url,
  prev_was_shortener,
  prev_path,
  prev_query,
  status_code,      \* the walk's status_code (0 before the first hop)
  t_url,            \* trim_get_parameters' url argument
  t_nested,         \* whether trim_get_parameters was called by canonical_link
  t_close_session,  \* trim_get_parameters' close_session
  params,           \* trim_get_parameters' params: the items of parse_qs in order
  idx,              \* position of the parameter loop in params
  ditch_params,
  requests,         \* every HEAD request issued so far, with its outcome
  result,           \* the value returned to the caller (None before the return)
  exc,              \* the exception that left the call ("none" when none did)
  verify,           \* where a later HEAD request on the returned URL ended (None before it)
  include_subdomain, \* the include_subdomain argument of extract_domain_from_url
  resolve_url,      \* the resolve_url argument of extract_domain_from_url
  table_writes      \* the changes made to GENERAL_LINK_SHORTENERS and VANITY_LINK_SHORTENERS

\* multiprocess_group_apply
VARIABLES
  grp,              \* the call: func, args, and the groups of the DataFrameGroupBy in order
  processes,        \* multiprocessing.cpu_count()
  pool_pc,          \* where the calling process stands
  jobs,             \* results: one AsyncResult per apply_async, with the task's state
  workers,          \* the job each worker process is running (0 when it runs none)
  finish_order,     \* the jobs in the order their tasks completed
  pool_result       \* the value multiprocess_group_apply returned (None before the return)

\* FileHandler.read
VARIABLES
  read_args,        \* the arguments of the call of the caller: key, format, hash_key
  frames,           \* the calls of read that wait for their recursive call, innermost last
  read_pc,          \* where the innermost call of read stands
  key,              \* key of the innermost call
  format,           \* format of the innermost call
  attempt_count,    \* io_kwargs["attempt_count"] of the innermost call (None when absent)
  data,             \* data of the innermost call
  reads,            \* every look at the file system so far: the path and what came of it
  sleeps,           \* the number of calls of time.sleep(5) so far
  read_result       \* what read gave the caller (None before that)

pool_vars ==
  << grp, processes, pool_pc, jobs, workers, finish_order, pool_result >>

read_vars ==
  << read_args, frames, read_pc, key, format, attempt_count, data, reads, sleeps, read_result >>

vars ==
  << fn, input, session_given, site, pc, callers, url, session, close_session, open_sessions,
     history, i, last_good_url, prev_was_shortener, prev_path, prev_query, status_code,
     t_url, t_nested, t_close_session, params, idx, ditch_params, requests, result, exc,
     verify, include_subdomain, resolve_url, table_writes, pool_vars, read_vars >>

\* no call of multiprocess_group_apply is under way
pool_idle ==
  /\ grp = [func |-> "none", add |-> 0, multiply |-> 0, groups |-> <<>>]
  /\ processes = 0
  /\ pool_pc = "idle"
  /\ jobs = <<>>
  /\ workers = <<>>
  /\ finish_order = <<>>
  /\ pool_result = None

\* no call of FileHandler.read is under way
read_idle ==
  /\ read_args = [key |-> <<>>, format |-> <<>>, hash_key |-> FALSE]
  /\ frames = <<>>
  /\ read_pc = "idle"
  /\ key = <<>>
  /\ format = <<>>
  /\ attempt_count = None
  /\ data = None
  /\ reads = <<>>
  /\ sleeps = 0
  /\ read_result = None

walk_vars ==
  << history, i, last_good_url, prev_was_shortener, prev_path, prev_query, status_code >>

trim_vars ==
  << t_url, t_nested, t_close_session, params, idx, ditch_params >>

call_vars ==
  << fn, input, session_given, site, include_subdomain, resolve_url >>

\* ------------------------------------------------------------------ the HTTP client

(* What session.head(u, ...) can do.  requests refuses a URL without an http(s) scheme
   (MissingSchema, not a ConnectionError) before anything is sent; otherwise any exception
   or any redirect history over the site's hops. *)
has_http_scheme(u) ==
  startswith(lower(u), HTTP_PREFIX) \/ startswith(lower(u), HTTPS_PREFIX)

Raised(e) ==
  [exc |-> e, hops |-> <<>>]

Answered(h) ==
  [exc |-> "none", hops |-> h]

\* allow_redirects=True: the hops followed, then the final response
head_following(u, hops) ==
  IF ~has_http_scheme(u) THEN { Raised("MissingSchema") }
  ELSE { Raised(e) : e \in EXCEPTIONS } \cup { Answered(h) : h \in Histories(hops) }

\* allow_redirects=False: the response of the requested URL itself, with an empty history
head_once(u, hops) ==
  IF ~has_http_scheme(u) THEN { Raised("MissingSchema") }
  ELSE { Raised(e) : e \in EXCEPTIONS }
       \cup { Answered(<<Hop(s, u)>>) : s \in { h.status_code : h \in hops } }

(* One entry of the log of requests: the URL asked for, whether redirects were followed,
   the function that asked, the parameter held out (None unless a trimming probe), the
   depth of the canonical_link call, the exception raised ("none" for a response) and, for
   a probe that was answered, the URL of the final response (None otherwise). *)
Request(u, redirects, by, held, d, outcome, final) ==
  [ url |-> u, allow_redirects |-> redirects, by |-> by, held_out |-> held,
    depth |-> d, outcome |-> outcome, final |-> final ]

\* ------------------------------------------------------------------ canonical_link

\* lines 413-414
normalize(u) ==
  IF ~startswith(u, S_http) THEN HTTP_PREFIX \o u ELSE u

\* the test of line 445 alone, without that of line 446 on the general list
is_vanity_shortener(parsed) ==
  parsed.netloc \in VANITY_KEYS

\* the mutation of is_shortener that goes by the length of the host, not by the tables
is_short_host(parsed) ==
  Len(parsed.netloc) < 5

\* lines 444-451
is_shortener(parsed) ==
  parsed.netloc \in VANITY_KEYS \/ parsed.netloc \in GENERAL_LINK_SHORTENERS

\* lines 455-460: a value that starts with "http" and parses with a scheme and a host
has_scheme_and_host(p) ==
  p.scheme # <<>> /\ p.netloc # <<>>

\* is_http_url without the test of line 455 on the start of the value
is_url_of_any_scheme(val) ==
  has_scheme_and_host(urlparse(val))

is_http_url(val) ==
  startswith(val, S_http) /\ has_scheme_and_host(urlparse(val))

\* the value of item number j of a parsed query (None for j = 0)
value_at(items, j) ==
  IF j = 0 THEN None ELSE Some(items[j].v[1])

first_http_value(items) ==
  value_at(items, first_of({ j \in 1..Len(items) :
                               Len(items[j].v) = 1 /\ is_http_url(items[j].v[1]) }))

(* lines 454-468: the value of the first parameter of the hop's query that has one value,
   starts with "http" and parses with a scheme and a host; None when there is none. *)
embedded_url(query) ==
  first_http_value(parse_qs(query))

\* a test of the hop's URL that no URL passes
never_error_page(u) ==
  FALSE

\* line 440: the hop is a generic error landing page
is_error_page(u) ==
  contains(u, S_errors404)

\* the mutation of same_link that takes only the very same URL, or the same path
same_url_or_path(response_url, parsed, good_url, original_parsed) ==
  response_url = good_url \/ parsed.path = original_parsed.path

\* lines 479-483
same_link(response_url, parsed, good_url, original_parsed) ==
  \/ re_sub(S_https, S_http, response_url) = re_sub(S_https, S_http, good_url)
  \/ parsed.path = original_parsed.path
  \/ lower(response_url) = lower(good_url)

\* the mutation of flagged_bad that does not compare with the previous hop
flagged_whatever_came_before(has_path, has_query, parsed, p_path, p_query) ==
  \/ /\ has_path
     /\ Len(parsed.netloc) > 7
     /\ Len(parsed.path) < 20
     /\ Len(parsed.query) = 0
  \/ /\ has_query
     /\ Len(parsed.netloc) > 7
     /\ Len(parsed.query) < 20
     /\ Len(parsed.path) <= 1

\* lines 495-509: the landing-page heuristic
flagged_bad(has_path, has_query, parsed, p_path, p_query) ==
  \/ /\ has_path
     /\ Len(parsed.netloc) > 7
     /\ Len(parsed.path) < 20
     /\ Len(parsed.query) = 0
     /\ p_path # Some(parsed.path)
  \/ /\ has_query
     /\ Len(parsed.netloc) > 7
     /\ Len(parsed.query) < 20
     /\ Len(parsed.path) <= 1
     /\ p_query # Some(parsed.query)

(* lines 438-528: one iteration of the walk, on hop number n (1 is the first), given the
   hop's parsed URL, the parsed URL of the first hop, whether the hop's host is a shortener
   and the embedded URL found in its query.  tag says how the iteration ends: "continue"
   (lines 526-528 ran), "break", or "restart" (the return of the recursive call on
   target). *)
hop_rule(n, resp, parsed, original_parsed, shortener, embedded, good_url, p_short, p_path, p_query) ==
  LET has_path   == original_parsed.path \notin { <<"/">>, <<>> }
      has_query  == original_parsed.query # <<>>
      good_path  == ~has_path \/ parsed.path \notin { <<"/">>, <<>> }
      good_query == ~has_query \/ parsed.query # <<>>
      stop(u)    == [ tag |-> "break", last_good_url |-> u,
                      prev_was_shortener |-> p_short, prev_path |-> p_path,
                      prev_query |-> p_query, target |-> None ]
      go(u)      == [ tag |-> "continue", last_good_url |-> u,
                      prev_was_shortener |-> shortener,
                      prev_path |-> Some(parsed.path),
                      prev_query |-> Some(parsed.query), target |-> None ]
  IN  IF is_error_page(resp.url) THEN stop(good_url)
      ELSE IF shortener THEN go(good_url)
      ELSE IF n # 1 /\ embedded # None
           THEN [stop(good_url) EXCEPT !.tag = "restart", !.target = embedded]
      ELSE IF resp.status_code \in PROXY_REQUIRED THEN stop(resp.url)
      ELSE IF good_query \/ good_path
           THEN IF same_link(resp.url, parsed, good_url, original_parsed)
                THEN go(resp.url)
                ELSE IF n # 1 /\ resp.status_code \in CHECK_LENGTH
                     THEN IF \/ ~flagged_bad(has_path, has_query, parsed, p_path, p_query)
                             \/ p_short
                          THEN go(resp.url)
                          ELSE go(good_url)
                     ELSE IF resp.status_code \notin BAD_STATUS_CODES
                          THEN go(resp.url)
                          ELSE stop(good_url)
           ELSE stop(good_url)

hop_parsed(n, resp, parsed, original_parsed, good_url, p_short, p_path, p_query) ==
  hop_rule(n, resp, parsed, original_parsed, is_shortener(parsed),
           embedded_url(parsed.query), good_url, p_short, p_path, p_query)

walk_hop(n, resp, first_url, good_url, p_short, p_path, p_query) ==
  hop_parsed(n, resp, urlparse(resp.url), urlparse(first_url),
             good_url, p_short, p_path, p_query)

\* lines 426-437: the locals of the walk once a response was obtained
BeginWalk(h) ==
  /\ history' = h
  /\ i' = 1
  /\ last_good_url' = h[1].url
  /\ prev_was_shortener' = FALSE
  /\ prev_path' = None
  /\ prev_query' = None
  /\ status_code' = 0

(* lines 408-417, and 418/423 for an exception: the entry of canonical_link and its
   primary request, which follows redirects. *)
PrimaryHead ==
  /\ pc = "call"
  /\ LET created == session = "None"
         u       == normalize(url)
     IN  /\ close_session' = created
         /\ session' = IF created THEN "own" ELSE session
         /\ open_sessions' = IF created THEN open_sessions \cup {"own"} ELSE open_sessions
         /\ url' = u
         /\ \E out \in head_following(u, site) :
              /\ requests' = Append(requests,
                               Request(u, TRUE, "canonical_link", None, Len(callers), out.exc, None))
              /\ IF out.exc = "none"
                 THEN BeginWalk(out.hops) /\ pc' = "walk"
                 ELSE /\ UNCHANGED walk_vars
                      /\ pc' = IF out.exc \in CONNECTION_ERRORS THEN "retry" ELSE "finish"
  /\ UNCHANGED << pool_vars, read_vars, table_writes, call_vars, callers, trim_vars, result, exc, verify >>

\* lines 419-422: the retry after a requests.ConnectionError, without following redirects
RetryHead ==
  /\ pc = "retry"
  /\ \E out \in head_once(url, site) :
       /\ requests' = Append(requests,
                        Request(url, FALSE, "canonical_link", None, Len(callers), out.exc, None))
       /\ IF out.exc = "none"
          THEN BeginWalk(out.hops) /\ pc' = "walk"
          ELSE UNCHANGED walk_vars /\ pc' = "finish"
  /\ UNCHANGED << pool_vars, read_vars, table_writes, call_vars, callers, url, session, close_session, open_sessions, trim_vars,
                  result, exc, verify >>

\* the effect of one iteration of the walk on the call, r being what walk_hop gives
ApplyHop(r) ==
  IF r.tag = "restart"
  THEN /\ Len(callers) < MaxRestarts
       /\ pc' = "call"
       /\ url' = r.target[1]
       /\ callers' = Append(callers, [url |-> url, close_session |-> close_session,
                                   hop |-> history[i]])
       /\ history' = <<>>
       /\ i' = 0
       /\ last_good_url' = <<>>
       /\ prev_was_shortener' = FALSE
       /\ prev_path' = None
       /\ prev_query' = None
       /\ status_code' = 0
  ELSE /\ pc' = IF r.tag = "break" \/ i = Len(history) THEN "after_walk" ELSE "walk"
       /\ i' = IF r.tag = "continue" THEN i + 1 ELSE i
       /\ status_code' = history[i].status_code
       /\ last_good_url' = r.last_good_url
       /\ prev_was_shortener' = r.prev_was_shortener
       /\ prev_path' = r.prev_path
       /\ prev_query' = r.prev_query
       /\ UNCHANGED << url, callers, history >>

(* lines 438-528: the walk examines hop i.  An embedded URL re-enters canonical_link with
   the session in use (lines 463-468).  The call that found it waits in callers, with its
   url, its close_session and the hop it stood at, and returns the value of the recursive
   call as it is: nothing of it runs afterwards. *)
WalkHop ==
  /\ pc = "walk"
  /\ i <= Len(history)
  /\ ApplyHop(walk_hop(i, history[i], history[1].url, last_good_url,
                       prev_was_shortener, prev_path, prev_query))
  /\ UNCHANGED << pool_vars, read_vars, table_writes, call_vars, session, close_session, open_sessions, trim_vars,
                  requests, result, exc, verify >>

\* ------------------------------------------------------------------ trim_get_parameters

SKIP_NAMES ==
  { S_document, S_article, S_id, S_qs }

SKIP_VALUES ==
  { S_html, S_http }

\* the test of lines 590-593 alone, without that of lines 586-589 on the name
check_value_only(k, v) ==
  \A skipper \in SKIP_VALUES : ~contains(lower(v[1]), skipper)

\* lines 585-593: whether the parameter is held out and probed
check(k, v) ==
  /\ \A skipper \in SKIP_NAMES : ~contains(lower(k), skipper)
  /\ \A skipper \in SKIP_VALUES : ~contains(lower(v[1]), skipper)

\* name and first value of each item
first_values(items) ==
  [ j \in 1..Len(items) |-> << items[j].k, items[j].v[1] >> ]

\* the (name, value) items of the single-valued parameters whose name is not in excluded
single_valued(items, excluded) ==
  LET pick(p) == Len(p.v) = 1 /\ \A j \in 1..Len(excluded) : excluded[j] # p.k
  IN  first_values(SelectSeq(items, pick))

\* lines 595-600: the URL without parameter k
held_out_url(u, items, k) ==
  urlunparse([urlparse(u) EXCEPT !.query = urlencode(single_valued(items, <<k>>))])

\* line 607: the response did not end at a bare domain
not_root(new_parsed) ==
  new_parsed.query # <<>> \/ new_parsed.path \notin { <<>>, <<"/">> }

\* the comparison of lines 610-614 alone, without the test of line 607
same_stripped_form(resp, u) ==
  /\ resp # None
  /\ before(resp[1], <<"?">>) = before(u, <<"?">>)

\* the tests of lines 605-607 alone, without the comparison of lines 610-614
answered_off_root(resp, u) ==
  /\ resp # None
  /\ not_root(urlparse(resp[1]))

\* lines 605-614: whether the probe's response marks the parameter as unnecessary
unnecessary(resp, u) ==
  /\ resp # None
  /\ not_root(urlparse(resp[1]))
  /\ before(resp[1], <<"?">>) = before(u, <<"?">>)

\* lines 620-625 alone, without the test of line 618
rebuilt_url(u, items, ditch) ==
  urlunparse([urlparse(u) EXCEPT !.query = urlencode(single_valued(items, ditch))])

\* lines 618-625: the URL returned
trimmed_url(u, items, ditch) ==
  IF Len(ditch) > 0
  THEN urlunparse([urlparse(u) EXCEPT !.query = urlencode(single_valued(items, ditch))])
  ELSE u

(* Where a probe of new_url may end: at new_url itself, at the bare domain, or at another
   page of the host. *)
finals_of(new_url, p) ==
  { new_url,
    urlunparse([p EXCEPT !.path = <<"/">>, !.query = <<>>, !.fragment = <<>>]),
    urlunparse([p EXCEPT !.path = <<"/","l","o","g","i","n">>, !.query = <<>>,
                         !.fragment = <<>>]) }

probe_finals(new_url) ==
  finals_of(new_url, urlparse(new_url))

probe_outcomes(new_url) ==
  { [exc |-> e, final |-> None] : e \in EXCEPTIONS }
    \cup { [exc |-> "none", final |-> Some(f)] : f \in probe_finals(new_url) }

\* line 581-582: params, for a URL with a query
query_items(query) ==
  IF query # <<>> THEN parse_qs(query) ELSE <<>>

\* lines 572-582: the entry of trim_get_parameters(u), up to the parameter loop
EnterTrim(u, nested, items) ==
  /\ t_url' = u
  /\ t_nested' = nested
  /\ t_close_session' = (session = "None")
  /\ session' = IF session = "None" THEN "own" ELSE session
  /\ open_sessions' = IF session = "None" THEN open_sessions \cup {"own"} ELSE open_sessions
  /\ params' = items
  /\ idx' = 1
  /\ ditch_params' = <<>>
  /\ pc' = IF items = <<>> THEN "trim_end" ELSE "trim_loop"

BeginTrim(u, nested) ==
  EnterTrim(u, nested, query_items(urlparse(u).query))

(* lines 530-536: after the walk, on the status code the walk last looked at: the call of
   trim_get_parameters on last_good_url with the session in use, or url = last_good_url. *)
AfterWalk ==
  /\ pc = "after_walk"
  /\ IF status_code \notin BAD_STATUS_CODES
     THEN /\ BeginTrim(last_good_url, TRUE)
          /\ UNCHANGED url
     ELSE /\ url' = last_good_url
          /\ pc' = "finish"
          /\ UNCHANGED << trim_vars, session, open_sessions >>
  /\ UNCHANGED << pool_vars, read_vars, table_writes, call_vars, callers, close_session, walk_vars, requests, result, exc, verify >>

\* the caller's own call of trim_get_parameters
TrimEnter ==
  /\ pc = "trim_call"
  /\ BeginTrim(input, FALSE)
  /\ UNCHANGED << pool_vars, read_vars, table_writes, call_vars, callers, url, close_session, walk_vars, requests, result, exc,
                  verify >>

\* lines 601-616: the probe of new_url, the URL without parameter k, and what follows from it
Probe(k, new_url) ==
  \E out \in probe_outcomes(new_url) :
    /\ requests' = Append(requests,
                     Request(new_url, TRUE, "trim_get_parameters", Some(k), Len(callers),
                             out.exc, out.final))
    /\ IF out.exc \notin {"none", "ReadTimeout"}
       THEN /\ pc' = "raised"
            /\ exc' = out.exc
            /\ UNCHANGED << idx, ditch_params >>
       ELSE /\ ditch_params' = IF unnecessary(out.final, t_url)
                               THEN Append(ditch_params, k)
                               ELSE ditch_params
            /\ idx' = idx + 1
            /\ pc' = IF idx = Len(params) THEN "trim_end" ELSE "trim_loop"
            /\ UNCHANGED exc

(* lines 583-616: one iteration of the parameter loop.  The probe is a HEAD request that
   follows redirects; only ReadTimeout is caught (resp = None), any other exception leaves
   trim_get_parameters, and canonical_link with it when that is the caller. *)
TrimParam ==
  /\ pc = "trim_loop"
  /\ idx <= Len(params)
  /\ IF ~check(params[idx].k, params[idx].v)
     THEN /\ idx' = idx + 1
          /\ pc' = IF idx = Len(params) THEN "trim_end" ELSE "trim_loop"
          /\ UNCHANGED << ditch_params, requests, exc >>
     ELSE Probe(params[idx].k, held_out_url(t_url, params, params[idx].k))
  /\ UNCHANGED << pool_vars, read_vars, table_writes, call_vars, callers, url, session, close_session, open_sessions, walk_vars,
                  t_url, t_nested, t_close_session, params, result, verify >>

\* the return of trim_get_parameters with value out, to canonical_link or to the caller
ReturnTrim(out) ==
  IF t_nested
  THEN /\ last_good_url' = out
       /\ url' = out
       /\ pc' = "finish"
       /\ UNCHANGED result
  ELSE /\ result' = Some(out)
       /\ pc' = "done"
       /\ UNCHANGED << last_good_url, url >>

(* lines 618-630: the return of trim_get_parameters; for the call made by canonical_link,
   lines 532-536 (last_good_url and url take the value returned). *)
TrimEnd ==
  /\ pc = "trim_end"
  /\ open_sessions' = IF t_close_session THEN open_sessions \ {session} ELSE open_sessions
  /\ ReturnTrim(trimmed_url(t_url, params, ditch_params))
  /\ UNCHANGED << pool_vars, read_vars, table_writes, call_vars, callers, session, close_session, history, i, prev_was_shortener,
                  prev_path, prev_query, status_code, trim_vars, requests, exc, verify >>

\* the mutation of Finish that closes the session whoever created it
FinishClosing ==
  /\ pc = "finish"
  /\ open_sessions' = open_sessions \ {session}
  /\ result' = Some(url)
  /\ pc' = "done"
  /\ UNCHANGED << pool_vars, read_vars, table_writes, call_vars, callers, url, session, close_session, walk_vars,
                  trim_vars, requests, exc, verify >>

\* lines 538-541: the return of canonical_link
Finish ==
  /\ pc = "finish"
  /\ open_sessions' = IF close_session THEN open_sessions \ {session} ELSE open_sessions
  /\ result' = Some(url)
  /\ pc' = "done"
  /\ UNCHANGED << pool_vars, read_vars, table_writes, call_vars, callers, url, session, close_session, walk_vars, trim_vars,
                  requests, exc, verify >>

\* the final URLs of the responses that the requests so far got for URL u
answers(u) ==
  { requests[j].final[1] :
      j \in { n \in 1..Len(requests) : requests[n].url = u /\ requests[n].final # None } }

(* what a later request for u may end at: as answered before, if it was asked before; the
   input is a resolved endpoint and ends at itself *)
later_finals(u, asked) ==
  IF asked # {} THEN asked ELSE IF u = input THEN {u} ELSE probe_finals(u)

(* A HEAD request (redirects followed) that the caller makes afterwards on the URL that
   trim_get_parameters returned.  The server answers a URL it was asked before as it
   answered then, and the input URL, an endpoint already resolved, by itself. *)
Verify ==
  /\ pc = "done"
  /\ fn = "trim_get_parameters"
  /\ \E f \in later_finals(result[1], answers(result[1])) : verify' = Some(f)
  /\ pc' = "verified"
  /\ UNCHANGED << pool_vars, read_vars, table_writes, call_vars, callers, url, session, close_session, open_sessions, walk_vars,
                  trim_vars, requests, result, exc >>

\* ------------------------------------------------------------------ specification

Init ==
  /\ fn \in {"canonical_link", "trim_get_parameters"}
  /\ session_given \in BOOLEAN
  /\ IF fn = "canonical_link"
     THEN input \in CL_INPUTS /\ site \in SITES /\ pc = "call"
     ELSE input \in TRIM_INPUTS /\ site = {} /\ pc = "trim_call"
  /\ callers = <<>>
  /\ url = input
  /\ session = IF session_given THEN "caller" ELSE "None"
  /\ close_session = FALSE
  /\ open_sessions = IF session_given THEN {"caller"} ELSE {}
  /\ history = <<>>
  /\ i = 0
  /\ last_good_url = <<>>
  /\ prev_was_shortener = FALSE
  /\ prev_path = None
  /\ prev_query = None
  /\ status_code = 0
  /\ t_url = <<>>
  /\ t_nested = FALSE
  /\ t_close_session = FALSE
  /\ params = <<>>
  /\ idx = 0
  /\ ditch_params = <<>>
  /\ requests = <<>>
  /\ result = None
  /\ exc = "none"
  /\ verify = None
  /\ include_subdomain = TRUE
  /\ resolve_url = FALSE
  /\ table_writes = {}
  /\ pool_idle
  /\ read_idle

Next ==
  \/ PrimaryHead
  \/ RetryHead
  \/ WalkHop
  \/ AfterWalk
  \/ TrimEnter
  \/ TrimParam
  \/ TrimEnd
  \/ Finish
  \/ Verify

Spec ==
  Init /\ [][Next]_vars

\* ------------------------------------------------------------------ tldextract

(* The entries of the public suffix list that the hosts of this model can match: the
   top-level domain of every key and value of VANITY_LINK_SHORTENERS and of the hosts in
   DOMAIN_URLS, and the second-level suffixes under them that those hosts reach. *)
PUBLIC_SUFFIXES ==
  { <<"a","b","c">>,
    <<"a","c">>,
    <<"a","g">>,
    <<"a","i">>,
    <<"a","l">>,
    <<"a","m">>,
    <<"a","t">>,
    <<"a","u">>,
    <<"b","e">>,
    <<"b","g">>,
    <<"b","i">>,
    <<"b","o">>,
    <<"c","a">>,
    <<"c","c">>,
    <<"c","h">>,
    <<"c","m">>,
    <<"c","o">>,
    <<"c","o","m">>,
    <<"c","x">>,
    <<"d","e">>,
    <<"d","o">>,
    <<"e","d","u">>,
    <<"e","s">>,
    <<"f","i">>,
    <<"f","m">>,
    <<"g","e">>,
    <<"g","o","v">>,
    <<"g","s">>,
    <<"i","e">>,
    <<"i","m">>,
    <<"i","n">>,
    <<"i","o">>,
    <<"i","s">>,
    <<"i","t">>,
    <<"k","g">>,
    <<"k","r">>,
    <<"l","i">>,
    <<"l","y">>,
    <<"m","d">>,
    <<"m","e">>,
    <<"m","n">>,
    <<"m","p">>,
    <<"m","s">>,
    <<"m","x">>,
    <<"n","e","w","s">>,
    <<"n","l">>,
    <<"o","r","g">>,
    <<"p","n">>,
    <<"p","r">>,
    <<"p","s">>,
    <<"p","t">>,
    <<"p","w">>,
    <<"r","e","n">>,
    <<"r","s">>,
    <<"s","e">>,
    <<"s","t">>,
    <<"t","c">>,
    <<"t","o">>,
    <<"t","v">>,
    <<"u","k">>,
    <<"u","s">>,
    <<"v","i">>,
    <<"w","s">>,
    <<"c","o",".","u","k">>,
    <<"n","e","t",".","a","u">>,
    <<"o","r","g",".","k","g">>,
    <<"m","a",".","u","s">>,
    <<"m","d",".","u","s">>,
    <<"m","n",".","u","s">>,
    <<"n","m",".","u","s">>,
    <<"n","y",".","u","s">>,
    <<"o","h",".","u","s">>,
    <<"p","a",".","u","s">> }

\* "//"
S_slashes ==
  <<"/","/">>

\* "www"
S_www ==
  <<"w","w","w">>

(* SCHEME_RE.sub("", url), SCHEME_RE = ^([a-zA-Z][a-zA-Z0-9+.-]*:)?// : a leading "//",
   with or without a scheme name and colon before it, is removed; c is the position of the
   first colon of url (0 when there is none) *)
scheme_removed(u, c) ==
  IF startswith(u, S_slashes) THEN SubSeq(u, 3, Len(u))
  ELSE IF /\ c > 1
          /\ u[1] \in Letters
          /\ \A j \in 2..(c - 1) : u[j] \in SCHEME_CHARS
          /\ SubSeq(u, c + 1, c + 2) = S_slashes
       THEN SubSeq(u, c + 3, Len(u))
       ELSE u

\* s.split(sep)[-1]
RECURSIVE after_last(_, _)
after_last(s, sep) ==
  IF contains(s, sep) THEN after_last(after(s, sep), sep) ELSE s

\* s.strip(): blanks removed at both ends
RECURSIVE strip(_)
strip(s) ==
  IF s # <<>> /\ Head(s) = " " THEN strip(Tail(s))
  ELSE IF s # <<>> /\ s[Len(s)] = " " THEN strip(SubSeq(s, 1, Len(s) - 1))
  ELSE s

\* the mutation of rstrip_dots that leaves the trailing dots
dots_kept(s) ==
  s

\* s.rstrip(".")
RECURSIVE rstrip_dots(_)
rstrip_dots(s) ==
  IF s # <<>> /\ s[Len(s)] = "." THEN rstrip_dots(SubSeq(s, 1, Len(s) - 1)) ELSE s

(* the host that tldextract splits: the URL without its scheme, cut at the first "/", "?"
   and "#", without user information and port, stripped of blanks and of trailing dots *)
netloc_of(rest) ==
  rstrip_dots(strip(before(after_last(before(before(before(rest, <<"/">>), <<"?">>), <<"#">>), <<"@">>), <<":">>)))

\* ".".join(labels)
RECURSIVE dotted(_)
dotted(labels) ==
  IF Len(labels) = 0 THEN <<>>
  ELSE IF Len(labels) = 1 THEN labels[1]
  ELSE labels[1] \o <<".">> \o dotted(Tail(labels))

(* suffix_index: the number of labels before the longest public suffix the host ends
   with, matched in lower case; the number of all labels when it ends with none.  The
   suffixes of this model have neither wildcard nor exception rules. *)
suffix_index(labels) ==
  LET hits == { j \in 1..Len(labels) :
                  lower(dotted(SubSeq(labels, j, Len(labels)))) \in PUBLIC_SUFFIXES }
  IN  IF hits = {} THEN Len(labels) ELSE first_of(hits) - 1

\* looks_like_ip: four labels of digits
looks_like_ip(labels) ==
  /\ Len(labels) = 4
  /\ \A j \in 1..4 : labels[j] # <<>> /\ \A k \in 1..Len(labels[j]) : labels[j][k] \in Digits

ExtractResult(subdomain, domain, suffix) ==
  [subdomain |-> subdomain, domain |-> domain, suffix |-> suffix]

\* the split of the labels of a host, n of them standing before the public suffix
extract_labels(labels, n) ==
  IF n = Len(labels) /\ labels # <<<<>>>> /\ looks_like_ip(labels)
  THEN ExtractResult(<<>>, dotted(labels), <<>>)
  ELSE ExtractResult(IF n > 0 THEN dotted(SubSeq(labels, 1, n - 1)) ELSE <<>>,
                     IF n > 0 THEN labels[n] ELSE <<>>,
                     dotted(SubSeq(labels, n + 1, Len(labels))))

extract_host(labels) ==
  extract_labels(labels, suffix_index(labels))

\* tldextract.extract(url)
tldextract(u) ==
  extract_host(split(netloc_of(scheme_removed(u, find(u, <<":">>))), <<".">>))

\* ------------------------------------------------------------------ extract_domain_from_url

\* "http://"
S_http_prefix ==
  <<"h","t","t","p",":","/","/">>

\* "https://"
S_https_prefix ==
  <<"h","t","t","p","s",":","/","/">>

\* "https://news.ycombinator.com"
D_hn ==
  <<"h","t","t","p","s",":","/","/","n","e","w","s",".","y","c","o","m","b","i","n","a","t","o","r",".","c","o","m">>

\* "http://forums.bbc.co.uk"
D_bbc ==
  <<"h","t","t","p",":","/","/","f","o","r","u","m","s",".","b","b","c",".","c","o",".","u","k">>

\* "http://www.worldbank.org.kg/"
D_worldbank ==
  <<"h","t","t","p",":","/","/","w","w","w",".","w","o","r","l","d","b","a","n","k",".","o","r","g",".","k","g","/">>

\* "http://forums.news.cnn.com/"
D_cnn ==
  <<"h","t","t","p",":","/","/","f","o","r","u","m","s",".","n","e","w","s",".","c","n","n",".","c","o","m","/">>

\* "https://pewrsr.ch/2lxB0EX"
D_pew ==
  <<"h","t","t","p","s",":","/","/","p","e","w","r","s","r",".","c","h","/","2","l","x","B","0","E","X">>

\* "http://m.youtu.be/x"
D_youtube_m ==
  <<"h","t","t","p",":","/","/","m",".","y","o","u","t","u",".","b","e","/","x">>

\* "http://www.youtu.be/x"
D_youtube_www ==
  <<"h","t","t","p",":","/","/","w","w","w",".","y","o","u","t","u",".","b","e","/","x">>

\* "http://on.fb.me/y"
D_facebook ==
  <<"h","t","t","p",":","/","/","o","n",".","f","b",".","m","e","/","y">>

\* "http://www.ma.us"
D_state ==
  <<"h","t","t","p",":","/","/","w","w","w",".","m","a",".","u","s">>

\* "localhost:8000/a"
D_local ==
  <<"l","o","c","a","l","h","o","s","t",":","8","0","0","0","/","a">>

\* "127.0.0.1"
D_ip ==
  <<"1","2","7",".","0",".","0",".","1">>

\* "user@nyti.ms:80/a?b#c"
D_userinfo ==
  <<"u","s","e","r","@","n","y","t","i",".","m","s",":","8","0","/","a","?","b","#","c">>

DOMAIN_URLS ==
  { D_hn, D_bbc, D_worldbank, D_cnn, D_pew, D_youtube_m, D_youtube_www, D_facebook, D_state, D_local, D_ip, D_userinfo }

(* the URLs that extract_domain_from_url is called with: "http://" followed by each key
   of VANITY_LINK_SHORTENERS, and the URLs above *)
DOMAIN_INPUTS ==
  { S_http_prefix \o k : k \in VANITY_KEYS } \cup DOMAIN_URLS

\* the URLs that it is called with when it is to resolve them first
RESOLVE_INPUTS ==
  { I_tco }

\* the mutation of keeps_subdomain that keeps a "www" subdomain too
keeps_any_subdomain(include, d) ==
  include /\ d.subdomain # <<>>

\* the test of line 689
keeps_subdomain(include, d) ==
  include /\ d.subdomain # <<>> /\ d.subdomain # S_www

\* lines 689-692: the name joined from the parts of the ExtractResult d
joined_domain(include, d) ==
  IF keeps_subdomain(include, d)
  THEN dotted(<<d.subdomain, d.domain, d.suffix>>)
  ELSE dotted(<<d.domain, d.suffix>>)

\* the mutation of vanity_get that finds no key
vanity_miss(name) ==
  name

\* VANITY_LINK_SHORTENERS.get(name, name)
vanity_get(name) ==
  IF name \in VANITY_KEYS
  THEN (CHOOSE p \in VANITY_LINK_SHORTENERS : p[1] = name)[2]
  ELSE name

(* extract_domain_from_url from line 687 on, for the URL u as it stands after the
   resolve_url step.  An ExtractResult is a non-empty tuple, so the test of line 688
   always passes. *)
extract_domain(u, include) ==
  vanity_get(joined_domain(include, tldextract(u)))

(* extract_domain_from_url(input, include_subdomain, resolve_url): with resolve_url the URL
   has gone through canonical_link (the actions above, from pc = "call" to pc = "done")
   and result holds what it returned; an exception of canonical_link leaves the call at
   pc = "raised". *)
ExtractDomain ==
  /\ fn = "extract_domain_from_url"
  /\ pc = IF resolve_url THEN "done" ELSE "extract"
  /\ url' = IF resolve_url THEN result[1] ELSE input
  /\ result' = Some(extract_domain(url', include_subdomain))
  /\ pc' = "returned"
  /\ UNCHANGED << pool_vars, read_vars, table_writes, call_vars, callers, session, close_session, open_sessions, walk_vars,
                  trim_vars, requests, exc, verify >>

\* ------------------------------------------------------------------ hash_url

\* "www.example.com"
H_example ==
  <<"w","w","w",".","e","x","a","m","p","l","e",".","c","o","m">>

\* "HTTP://a.com"
H_upper ==
  <<"H","T","T","P",":","/","/","a",".","c","o","m">>

\* "Https://A.com/B"
H_mixed ==
  <<"H","t","t","p","s",":","/","/","A",".","c","o","m","/","B">>

\* "café.com/É"
H_accent ==
  <<"c","a","f","é",".","c","o","m","/","É">>

\* "NaN"
H_null ==
  <<"N","a","N">>

\* " a.com "
H_blank ==
  <<" ","a",".","c","o","m"," ">>

\* "ftp://a.com"
H_ftp ==
  <<"f","t","p",":","/","/","a",".","c","o","m">>

\* "httpx"
H_httpx ==
  <<"h","t","t","p","x">>

HASH_URLS ==
  { H_example, H_upper, H_mixed, H_accent, H_null, H_blank, H_ftp, H_httpx }

\* the letters outside ASCII that the URLs above use, as <<upper case, lower case>>
ACCENTED ==
  { <<"É", "é">> }

\* unidecode of the characters outside ASCII, as <<character, transliteration>>
TRANSLITERATED ==
  { <<"É", <<"E">>>>, <<"é", <<"e">>>> }

\* str.lower() of one character
lowered(c) ==
  IF \E p \in ACCENTED : p[1] = c THEN (CHOOSE p \in ACCENTED : p[1] = c)[2] ELSE lowerChar(c)

\* str.upper() of one character
uppered(c) ==
  IF \E p \in ACCENTED : p[2] = c THEN (CHOOSE p \in ACCENTED : p[2] = c)[1] ELSE upperChar(c)

\* url.lower()
str_lower(s) ==
  [j \in 1..Len(s) |-> lowered(s[j])]

\* http_regex.sub("", s), http_regex = ^http(s)?\:\/\/
http_regex_sub(s) ==
  IF startswith(s, S_https_prefix) THEN SubSeq(s, Len(S_https_prefix) + 1, Len(s))
  ELSE IF startswith(s, S_http_prefix) THEN SubSeq(s, Len(S_http_prefix) + 1, Len(s))
  ELSE s

\* unidecode(s): transliteration to ASCII
RECURSIVE unidecode(_)
unidecode(s) ==
  IF s = <<>> THEN <<>>
  ELSE (IF \E p \in TRANSLITERATED : p[1] = Head(s)
        THEN (CHOOSE p \in TRANSLITERATED : p[1] = Head(s))[2]
        ELSE <<Head(s)>>) \o unidecode(Tail(s))

\* the strings that is_not_null takes for null (pewtils/__init__.py, line 87)
NULL_VALUES ==
  { <<"N","o","n","e">>, <<"n","a","n">>, <<>>, <<" ">>, <<"N","a","N">>, <<"n","o","n","e">>,
    <<"n","/","a">>, <<"N","O","N","E">>, <<"N","/","A">> }

(* decode_text(text) on a Python 3 str: a str has no decode method, so both decoding
   attempts fail and unidecode is used; a null value gives the empty string *)
decode_text(text) ==
  IF text \in NULL_VALUES THEN <<>> ELSE unidecode(text)

(* md5(text).hexdigest(): the digest documented for "www.example.com", and for any other
   text a value that stands for its digest, different texts having different digests *)
md5(text) ==
  IF text = H_example
  THEN <<"7","c","1","7","6","7","b","3","0","5","1","2","b","6","0","0",
         "3","f","d","3","c","2","e","6","1","8","a","8","6","5","2","2">>
  ELSE [md5_of |-> text]

(* get_hash(text, hash_function="md5"): the text is decoded, encoded as UTF-8 and stripped
   of blanks; the bytes never equal the str "", so the fallback of lines 251-252 is not
   taken *)
get_hash(text) ==
  md5(strip(decode_text(text)))

\* the mutation of hash_url that removes the scheme before it lowers the case
hash_url_strip_first(u) ==
  get_hash(unidecode(str_lower(http_regex_sub(u))))

\* hash_url(url), lines 39-45
hash_url(u) ==
  get_hash(unidecode(http_regex_sub(str_lower(u))))

\* s with the case of its j-th character changed
case_changed(s, j) ==
  [k \in 1..Len(s) |-> IF k # j THEN s[k] ELSE IF lowered(s[k]) # s[k] THEN lowered(s[k]) ELSE uppered(s[k])]

\* s, s with the case of one letter changed, and s in upper case throughout
recased(s) ==
  {s} \cup { case_changed(s, j) : j \in 1..Len(s) } \cup { [k \in 1..Len(s) |-> uppered(s[k])] }

(* the arguments hash_url is called with: the URLs above, with and without a scheme in
   front, in every letter case that recased gives *)
HASH_INPUTS ==
  UNION { recased(u) \cup recased(S_http_prefix \o u) \cup recased(S_https_prefix \o u) : u \in HASH_URLS }

HashUrl ==
  /\ fn = "hash_url"
  /\ pc = "hash"
  /\ result' = Some(hash_url(input))
  /\ pc' = "returned"
  /\ UNCHANGED << pool_vars, read_vars, table_writes, call_vars, callers, url, session, close_session, open_sessions, walk_vars,
                  trim_vars, requests, exc, verify >>

\* ------------------------------------------------------------------ specification of the two functions

InitDomain ==
  /\ fn \in {"extract_domain_from_url", "hash_url"}
  /\ IF fn = "hash_url"
     THEN /\ input \in HASH_INPUTS
          /\ include_subdomain = TRUE /\ resolve_url = FALSE /\ session_given = FALSE
          /\ site = {} /\ pc = "hash"
     ELSE /\ include_subdomain \in BOOLEAN
          /\ resolve_url \in BOOLEAN
          /\ IF resolve_url
             THEN input \in RESOLVE_INPUTS /\ session_given \in BOOLEAN /\ site \in SITES /\ pc = "call"
             ELSE input \in DOMAIN_INPUTS /\ session_given = FALSE /\ site = {} /\ pc = "extract"
  /\ callers = <<>>
  /\ url = input
  /\ session = IF session_given THEN "caller" ELSE "None"
  /\ close_session = FALSE
  /\ open_sessions = IF session_given THEN {"caller"} ELSE {}
  /\ history = <<>>
  /\ i = 0
  /\ last_good_url = <<>>
  /\ prev_was_shortener = FALSE
  /\ prev_path = None
  /\ prev_query = None
  /\ status_code = 0
  /\ t_url = <<>>
  /\ t_nested = FALSE
  /\ t_close_session = FALSE
  /\ params = <<>>
  /\ idx = 0
  /\ ditch_params = <<>>
  /\ requests = <<>>
  /\ result = None
  /\ exc = "none"
  /\ verify = None
  /\ table_writes = {}
  /\ pool_idle
  /\ read_idle

NextDomain ==
  \/ PrimaryHead
  \/ RetryHead
  \/ WalkHop
  \/ AfterWalk
  \/ TrimParam
  \/ TrimEnd
  \/ Finish
  \/ ExtractDomain
  \/ HashUrl

SpecDomain ==
  InitDomain /\ [][NextDomain]_vars

\* ------------------------------------------------------------------ specification of all four functions

InitCalls ==
  Init \/ InitDomain

NextCalls ==
  \/ Next
  \/ ExtractDomain
  \/ HashUrl

SpecCalls ==
  InitCalls /\ [][NextCalls]_vars

\* ------------------------------------------------------------------ multiprocess_group_apply

\* no call of the functions of pewtils.http is under way
http_idle ==
  /\ input = <<>> /\ session_given = FALSE /\ site = {} /\ pc = "idle"
  /\ callers = <<>> /\ url = <<>> /\ session = "None" /\ close_session = FALSE
  /\ open_sessions = {} /\ history = <<>> /\ i = 0 /\ last_good_url = <<>>
  /\ prev_was_shortener = FALSE /\ prev_path = None /\ prev_query = None
  /\ status_code = 0 /\ t_url = <<>> /\ t_nested = FALSE /\ t_close_session = FALSE
  /\ params = <<>> /\ idx = 0 /\ ditch_params = <<>> /\ requests = <<>>
  /\ result = None /\ exc = "none" /\ verify = None
  /\ include_subdomain = TRUE /\ resolve_url = FALSE /\ table_writes = {}

\* the number of worker processes, multiprocessing.cpu_count(), is at most MaxProcesses
MaxProcesses ==
  2

\* the column "test" of the DataFrame of the test
TEST_VALUES ==
  <<1, 2, 3, 3>>

\* the column "group" of the DataFrame: that of the test, and others
GROUP_COLUMNS ==
  { <<1, 1, 2, 2>>, <<2, 1, 2, 1>>, <<1, 2, 3, 3>>, <<3, 1, 2, 1>> }

\* (add, multiply) of the calls of the test
TEST_ARGS ==
  { <<1, 2>>, <<1, 3>>, <<2, 2>> }

\* the DataFrame with the given column "group"; pandas numbers its rows from 0
DataFrame(column) ==
  [r \in 1..Len(TEST_VALUES) |-> [index |-> r - 1, test |-> TEST_VALUES[r], group |-> column[r]]]

RECURSIVE ascending(_)
\* the numbers of S in ascending order
ascending(S) ==
  IF S = {} THEN <<>>
  ELSE LET least == CHOOSE x \in S : \A y \in S : x <= y
       IN  <<least>> \o ascending(S \ {least})

\* df.groupby("group"): the groups by ascending name, the rows of each in the order of df
groupby(df) ==
  LET names == ascending({ df[r].group : r \in 1..Len(df) })
  IN  [k \in 1..Len(names) |->
         [name |-> names[k], rows |-> SelectSeq(df, LAMBDA row : row.group = names[k])]]

\* a number: a value without __len__
Scalar(n) ==
  [has_len |-> FALSE, items |-> <<n>>]

\* a pandas Series: its (index, value) pairs in order
Series(pairs) ==
  [has_len |-> TRUE, items |-> pairs]

\* tests/base.py 320-321
test_function_agg(rows, add, multiply) ==
  Scalar((Len(rows) + add) * multiply)

\* tests/base.py 324-325
test_function_map(rows, add, multiply) ==
  Series([r \in 1..Len(rows) |-> <<rows[r].index, (rows[r].test + add) * multiply>>])

\* func(group, *args, **kwargs)
apply_func(func, rows, add, multiply) ==
  IF func = "_test_function_agg"
  THEN test_function_agg(rows, add, multiply)
  ELSE test_function_map(rows, add, multiply)

\* the mutation of async_set that hands the value to the first job still without one
async_set_first_unset(js, j, value) ==
  LET first == CHOOSE k \in 1..Len(js) : js[k].value = None /\ \A l \in 1..(k - 1) : js[l].value # None
  IN  [[js EXCEPT ![j].state = "done"] EXCEPT ![first].value = Some(value)]

\* the worker's result reaches the AsyncResult of its own job
async_set(js, j, value) ==
  [js EXCEPT ![j] = [state |-> "done", value |-> Some(value)]]

RECURSIVE concat(_)
\* pd.concat(results)
concat(results) ==
  IF results = <<>> THEN <<>>
  ELSE results[1].items \o concat(Tail(results))

\* lines 758-763
group_apply_return(results, groups) ==
  IF ~results[1].has_len
  THEN Series([k \in 1..Len(results) |-> <<groups[k].name, results[k].items[1]>>])
  ELSE Series(concat(results))

\* lines 752-753: one apply_async per group, in the order of the groups
ApplyAsync ==
  /\ pool_pc = "submit"
  /\ Len(jobs) < Len(grp.groups)
  /\ jobs' = Append(jobs, [state |-> "queued", value |-> None])
  /\ UNCHANGED << grp, processes, pool_pc, workers, finish_order, pool_result >>
  /\ UNCHANGED << read_vars, table_writes, call_vars, pc, callers, url, session, close_session,
                  open_sessions, walk_vars, trim_vars, requests, result, exc, verify >>

\* line 754
PoolClose ==
  /\ pool_pc = "submit"
  /\ Len(jobs) = Len(grp.groups)
  /\ pool_pc' = "join"
  /\ UNCHANGED << grp, processes, jobs, workers, finish_order, pool_result >>
  /\ UNCHANGED << read_vars, table_writes, call_vars, pc, callers, url, session, close_session,
                  open_sessions, walk_vars, trim_vars, requests, result, exc, verify >>

\* a worker process that runs no task takes one of the tasks that wait
WorkerStart ==
  \E w \in 1..processes :
    /\ pool_pc \in {"submit", "join"}
    /\ workers[w] = 0
    /\ \E j \in 1..Len(jobs) :
         /\ jobs[j].state = "queued"
         /\ jobs' = [jobs EXCEPT ![j].state = "running"]
         /\ workers' = [workers EXCEPT ![w] = j]
    /\ UNCHANGED << grp, processes, pool_pc, finish_order, pool_result >>
    /\ UNCHANGED << read_vars, table_writes, call_vars, pc, callers, url, session, close_session,
                    open_sessions, walk_vars, trim_vars, requests, result, exc, verify >>

\* a worker process completes its task: func has run on the group of the job
WorkerFinish ==
  \E w \in 1..processes :
    /\ pool_pc \in {"submit", "join"}
    /\ workers[w] # 0
    /\ jobs' = async_set(jobs, workers[w],
                         apply_func(grp.func, grp.groups[workers[w]].rows, grp.add, grp.multiply))
    /\ finish_order' = Append(finish_order, workers[w])
    /\ workers' = [workers EXCEPT ![w] = 0]
    /\ UNCHANGED << grp, processes, pool_pc, pool_result >>
    /\ UNCHANGED << read_vars, table_writes, call_vars, pc, callers, url, session, close_session,
                    open_sessions, walk_vars, trim_vars, requests, result, exc, verify >>

\* line 755: join returns once the closed pool has run every task
PoolJoin ==
  /\ pool_pc = "join"
  /\ \A j \in 1..Len(jobs) : jobs[j].state = "done"
  /\ pool_pc' = "get"
  /\ UNCHANGED << grp, processes, jobs, workers, finish_order, pool_result >>
  /\ UNCHANGED << read_vars, table_writes, call_vars, pc, callers, url, session, close_session,
                  open_sessions, walk_vars, trim_vars, requests, result, exc, verify >>

\* lines 756-763: r.get() for every job in the order of results, then the return
GroupApplyReturn ==
  /\ pool_pc = "get"
  /\ \A j \in 1..Len(jobs) : jobs[j].value # None
  /\ pool_result' = Some(group_apply_return([j \in 1..Len(jobs) |-> jobs[j].value[1]], grp.groups))
  /\ pool_pc' = "returned"
  /\ UNCHANGED << grp, processes, jobs, workers, finish_order >>
  /\ UNCHANGED << read_vars, table_writes, call_vars, pc, callers, url, session, close_session,
                  open_sessions, walk_vars, trim_vars, requests, result, exc, verify >>

InitPool ==
  /\ fn = "multiprocess_group_apply"
  /\ http_idle
  /\ read_idle
  /\ \E column \in GROUP_COLUMNS, args \in TEST_ARGS,
        func \in {"_test_function_agg", "_test_function_map"} :
       grp = [func |-> func, add |-> args[1], multiply |-> args[2],
              groups |-> groupby(DataFrame(column))]
  /\ processes \in 1..MaxProcesses
  /\ pool_pc = "submit"
  /\ jobs = <<>>
  /\ workers = [w \in 1..processes |-> 0]
  /\ finish_order = <<>>
  /\ pool_result = None

NextPool ==
  \/ ApplyAsync
  \/ PoolClose
  \/ WorkerStart
  \/ WorkerFinish
  \/ PoolJoin
  \/ GroupApplyReturn

SpecPool ==
  InitPool /\ [][NextPool]_vars

\* ------------------------------------------------------------------ FileHandler.read

\* "temp"
K_temp ==
  <<"t", "e", "m", "p">>

\* "pkl"
F_pkl ==
  <<"p", "k", "l">>

\* ".pkl"
F_dot_pkl ==
  <<".", "p", "k", "l">>

RECURSIVE lstrip_dot(_)
lstrip_dot(s) ==
  IF s # <<>> /\ s[1] = "." THEN lstrip_dot(Tail(s)) ELSE s

\* format.strip(".")
strip_dot(s) ==
  rstrip_dots(lstrip_dot(s))

\* self.get_key_hash(key): the digest of the key, which is not the key
get_key_hash(k) ==
  <<[sha224_of |-> k]>>

\* "/".join([self.path, "{}.{}".format(key, format)])
filepath_of(k, f) ==
  [key |-> k, suffix |-> f]

(* What the file can hold when it is read while another process writes it: nothing yet, a
   complete pickle (of the version written last), text that pickle.loads refuses with a
   TypeError, bytes it refuses with a ValueError, and bytes it refuses with another
   exception. *)
FILE_KINDS ==
  {"empty", "pickle", "text", "insecure", "truncated"}

\* is_not_null(data), for what a file can hold
data_is_not_null(d) ==
  d # None /\ d[1].kind # "empty"

\* the mutation of may_retry that allows one more call
may_retry_again(count) ==
  count <= 4

\* line 375
may_retry(count) ==
  count <= 3

\* lines 327-333: format, key, data and filepath of the call
ReadEnter ==
  /\ read_pc = "enter"
  /\ format' = strip_dot(format)
  /\ key' = IF read_args.hash_key THEN get_key_hash(key) ELSE key
  /\ data' = None
  /\ read_pc' = "open"
  /\ UNCHANGED << read_args, frames, attempt_count, reads, sleeps, read_result >>
  /\ UNCHANGED << pool_vars, table_writes, call_vars, pc, callers, url, session, close_session,
                  open_sessions, walk_vars, trim_vars, requests, result, exc, verify >>

\* lines 344-353 (use_s3 is False), and the tests of lines 355 and 356
ReadFile ==
  /\ read_pc = "open"
  /\ \E found \in {None} \cup { Some([kind |-> k, version |-> Len(reads) + 1]) : k \in FILE_KINDS } :
       /\ data' = found
       /\ reads' = Append(reads, [path |-> filepath_of(key, format), found |-> found])
       /\ read_pc' = IF data_is_not_null(found) /\ format = F_pkl THEN "loads" ELSE "return"
  /\ UNCHANGED << read_args, frames, key, format, attempt_count, sleeps, read_result >>
  /\ UNCHANGED << pool_vars, table_writes, call_vars, pc, callers, url, session, close_session,
                  open_sessions, walk_vars, trim_vars, requests, result, exc, verify >>

\* lines 357-372 and 384-386: pickle.loads(data) and its except clauses, up to the print
Unpickle ==
  /\ read_pc = "loads"
  /\ IF data[1].kind = "pickle"
     THEN /\ data' = Some([object |-> data[1].version])
          /\ read_pc' = "return"
          /\ UNCHANGED attempt_count
     ELSE IF data[1].kind = "insecure"
     THEN /\ attempt_count' = IF attempt_count = None THEN Some(1) ELSE attempt_count
          /\ read_pc' = "sleep"
          /\ UNCHANGED data
     ELSE /\ data' = None
          /\ read_pc' = "return"
          /\ UNCHANGED attempt_count
  /\ UNCHANGED << read_args, frames, key, format, reads, sleeps, read_result >>
  /\ UNCHANGED << pool_vars, table_writes, call_vars, pc, callers, url, session, close_session,
                  open_sessions, walk_vars, trim_vars, requests, result, exc, verify >>

\* line 373
Sleep ==
  /\ read_pc = "sleep"
  /\ sleeps' = sleeps + 1
  /\ read_pc' = "retry"
  /\ UNCHANGED << read_args, frames, key, format, attempt_count, data, reads, read_result >>
  /\ UNCHANGED << pool_vars, table_writes, call_vars, pc, callers, url, session, close_session,
                  open_sessions, walk_vars, trim_vars, requests, result, exc, verify >>

\* lines 375-382: the recursive call, with the key and the format of this call, or None
Retry ==
  /\ read_pc = "retry"
  /\ IF may_retry(attempt_count[1])
     THEN /\ attempt_count' = Some(attempt_count[1] + 1)
          /\ frames' = Append(frames, [key |-> key, format |-> format,
                                       attempt_count |-> Some(attempt_count[1] + 1)])
          /\ read_pc' = "enter"
          /\ UNCHANGED data
     ELSE /\ data' = None
          /\ read_pc' = "return"
          /\ UNCHANGED << attempt_count, frames >>
  /\ UNCHANGED << read_args, key, format, reads, sleeps, read_result >>
  /\ UNCHANGED << pool_vars, table_writes, call_vars, pc, callers, url, session, close_session,
                  open_sessions, walk_vars, trim_vars, requests, result, exc, verify >>

\* line 427: to the call that waits at line 377, or to the caller
ReadReturn ==
  /\ read_pc = "return"
  /\ IF frames = <<>>
     THEN /\ read_result' = data
          /\ read_pc' = "returned"
          /\ UNCHANGED << frames, key, format, attempt_count >>
     ELSE /\ frames' = SubSeq(frames, 1, Len(frames) - 1)
          /\ key' = frames[Len(frames)].key
          /\ format' = frames[Len(frames)].format
          /\ attempt_count' = frames[Len(frames)].attempt_count
          /\ read_pc' = "return"
          /\ UNCHANGED read_result
  /\ UNCHANGED << read_args, data, reads, sleeps >>
  /\ UNCHANGED << pool_vars, table_writes, call_vars, pc, callers, url, session, close_session,
                  open_sessions, walk_vars, trim_vars, requests, result, exc, verify >>

InitRead ==
  /\ fn = "FileHandler.read"
  /\ http_idle
  /\ pool_idle
  /\ read_args \in [key : {K_temp}, format : {F_pkl, F_dot_pkl}, hash_key : BOOLEAN]
  /\ frames = <<>>
  /\ read_pc = "enter"
  /\ key = read_args.key
  /\ format = read_args.format
  /\ attempt_count = None
  /\ data = None
  /\ reads = <<>>
  /\ sleeps = 0
  /\ read_result = None

NextRead ==
  \/ ReadEnter
  \/ ReadFile
  \/ Unpickle
  \/ Sleep
  \/ Retry
  \/ ReadReturn

\* the call runs on: nothing but the five seconds of time.sleep holds it up
SpecRead ==
  InitRead /\ [][NextRead]_vars /\ WF_vars(NextRead)
\* ------------------------------------------------------------------ properties

\* the canonical_link requests of the call at depth d, in the order they were made
own_requests(d) ==
  SelectSeq(requests, LAMBDA r : r.by = "canonical_link" /\ r.depth = d)

(* C1: canonical_link never raises because of a network failure: whichever HEAD request of
   the call fails with a transport error (the primary request, the retry, a trimming probe
   on the accepted URL, a request of an embedded-URL restart), the call still returns a URL
   and no exception reaches the caller. *)
C1_NeverRaisesOnTransportError ==
  fn = "canonical_link" => ~(pc = "raised" /\ exc \in TRANSPORT_ERRORS)

\* the URL with "http://" put in front unless it starts with "http://" or "https://"
scheme_normalized(u) ==
  IF startswith(u, HTTP_PREFIX) \/ startswith(u, HTTPS_PREFIX) THEN u ELSE HTTP_PREFIX \o u

\* the primary request and its retry, as the requests rs of one canonical_link call show them
retried_once_iff_connection_error(rs, retry_pending) ==
  /\ Len(rs) <= 2
  /\ Len(rs) >= 1 => rs[1].allow_redirects
  /\ Len(rs) = 2 => rs[1].outcome \in CONNECTION_ERRORS /\ ~rs[2].allow_redirects
  /\ (Len(rs) = 1 /\ rs[1].outcome \in CONNECTION_ERRORS) => retry_pending

(* C2: the primary HEAD request (redirects allowed) is retried exactly once, with redirects
   disabled, if and only if it raised a connection-level error.  If no attempt yields a
   response the call returns the scheme-normalized input URL, raises nothing and issues no
   further request. *)
C2_RetryOnceThenFallBack ==
  fn = "canonical_link" =>
    /\ \A d \in 0..Len(callers) :
         retried_once_iff_connection_error(own_requests(d), d = Len(callers) /\ pc = "retry")
    /\ (callers = <<>> /\ history = <<>> /\ pc \in {"finish", "done", "raised"}) =>
         /\ pc # "raised"
         /\ \A j \in 1..Len(requests) : requests[j].by = "canonical_link"
         /\ pc = "done" => result = Some(scheme_normalized(input))

(* C3: a session that canonical_link or trim_get_parameters created is closed on every exit
   path of the call: the normal return, the return of an embedded-URL restart, and an
   exception raised by a request.  After the call ends no session it created is open. *)
C3_CreatedSessionClosed ==
  pc \in {"done", "raised", "verified"} => "own" \notin open_sessions

\* whether the host of a parsed URL is in one of the two shortener tables
in_shortener_tables(parsed) ==
  \/ parsed.netloc \in GENERAL_LINK_SHORTENERS
  \/ \E pair \in VANITY_LINK_SHORTENERS : pair[1] = parsed.netloc

\* the values, in order, of the single-valued parameters of a query that pass ok
values_passing(items, ok(_)) ==
  LET pick(p) == Len(p.v) = 1 /\ ok(p.v[1])
      found   == SelectSeq(items, pick)
  IN  [ j \in 1..Len(found) |-> found[j].v[1] ]

\* the fully-qualified URLs (scheme and host) among the single-valued parameters of a hop
fully_qualified_values(hop_url) ==
  LET qualified(val) == has_scheme_and_host(urlparse(val))
  IN  values_passing(parse_qs(urlparse(hop_url).query), qualified)

\* those of them that start with "http"
http_values(hop_url) ==
  LET qualified(val) == startswith(val, S_http) /\ has_scheme_and_host(urlparse(val))
  IN  values_passing(parse_qs(urlparse(hop_url).query), qualified)

\* the walk stands at a hop that is neither the first one nor on a shortener host
at_later_plain_hop ==
  /\ pc = "walk"
  /\ i > 1
  /\ ~in_shortener_tables(urlparse(history[i].url))

\* the step re-enters canonical_link on one of the URLs in targets, with the session in use
restarts_on(targets) ==
  /\ pc' = "call"
  /\ \E j \in 1..Len(targets) : url' = targets[j]
  /\ session' = session
  /\ Len(callers') = Len(callers) + 1

(* C4 as stated: whenever the walk reaches a non-first, non-shortener hop whose query has a
   single-valued parameter whose value is a fully-qualified URL (scheme and host), the call
   returns the result of canonical_link on that URL, with the same session, and the hop is
   not accepted, whatever the hop's status code. *)
C4_AnyFullyQualifiedValueRestarts ==
  [][ (at_later_plain_hop /\ fully_qualified_values(history[i].url) # <<>>)
        => restarts_on(fully_qualified_values(history[i].url)) ]_vars

(* C4, amended: a step of the walk re-enters canonical_link exactly when the hop is not the
   first one, its URL does not contain 'errors/404', its host is not a shortener and its
   query has a single-valued parameter whose value starts with "http" and has a scheme and
   a host; it re-enters on the first such value with the session in use, whatever the
   status code of the hop (307 and 407 included). *)
C4_HttpValueRestarts ==
  [][ pc = "walk" =>
        IF at_later_plain_hop /\ ~contains(history[i].url, S_errors404)
             /\ http_values(history[i].url) # <<>>
        THEN restarts_on(<< http_values(history[i].url)[1] >>)
        ELSE pc' # "call" /\ callers' = callers ]_vars

\* a call was entered from a hop of status 307 that carries an embedded URL
C4_Witness ==
  /\ pc = "call"
  /\ Len(callers) = 1
  /\ callers[1].hop = Hop(307, U_wrap_http)
  /\ url = U_real

\* the position of the first hop of h whose URL contains 'errors/404', 0 when there is none
first_marked(h) ==
  first_of({ j \in 1..Len(h) : contains(h[j].url, S_errors404) })

\* the walk examined no hop after hop number m
stopped_by(m) ==
  m # 0 => i <= m

(* C5 as stated: when some hop's URL contains 'errors/404' the walk stops at the first such
   hop and the URL returned never contains 'errors/404', wherever the marked hop is in the
   sequence, the first position included. *)
C5_MarkedUrlNeverReturned ==
  (fn = "canonical_link" /\ pc = "done" /\ first_marked(history) # 0) =>
    /\ stopped_by(first_marked(history))
    /\ ~contains(result[1], S_errors404)

(* C5, amended: the walk of a call stops at the first hop whose URL contains 'errors/404':
   the step on that hop ends the loop and leaves last_good_url as it is, so no later hop is
   examined or accepted and the call returns the last URL accepted before that hop, after
   parameter trimming.  When the marked hop is the first one this is the first hop's own
   URL, which contains 'errors/404'; the URL returned contains it in no other case. *)
C5_StopsAtMarkedHop ==
  /\ [][ (pc = "walk" /\ contains(history[i].url, S_errors404))
           => (pc' = "after_walk" /\ i' = i /\ last_good_url' = last_good_url) ]_vars
  /\ [](pc \in {"walk", "after_walk", "finish", "done"} => stopped_by(first_marked(history)))
  /\ []((fn = "canonical_link" /\ pc = "done" /\ history # <<>>) =>
          IF contains(history[1].url, S_errors404)
          THEN before(result[1], <<"?">>) = before(history[1].url, <<"?">>)
          ELSE ~contains(result[1], S_errors404))

\* a walk that ended at a marked third hop and returned the URL accepted at the second
C5_Witness ==
  /\ pc = "done"
  /\ history = << Hop(301, U_bitly), Hop(200, U_article), Hop(200, U_errors404) >>
  /\ i = 3
  /\ result = Some(U_article)

\* a hop of status 301 on a shortener host
short_link_hop(h, parsed) ==
  /\ h.status_code = 301
  /\ in_shortener_tables(parsed)
  /\ ~contains(h.url, S_errors404)

\* a hop of status 200 on a host that is no shortener, with a path and without a query
content_hop(h, parsed) ==
  /\ h.status_code = 200
  /\ ~in_shortener_tables(parsed)
  /\ parsed.path \notin { <<>>, <<"/">> }
  /\ parsed.query = <<>>
  /\ ~contains(h.url, S_errors404)

(* C6 as stated, on its example: with the hops [(301, 'https://short.ly/x'),
   (200, 'https://news.example.com/full/article/path')] canonical_link returns
   'https://news.example.com/full/article/path'. *)
C6_ShortLyChainResolves ==
  (fn = "canonical_link" /\ pc = "done"
     /\ history = << Hop(301, U_shortly), Hop(200, U_article) >>)
    => result = Some(U_article)

(* C6, amended: a chain of two hops, the first of status 301 on a host listed in
   GENERAL_LINK_SHORTENERS or VANITY_LINK_SHORTENERS, the second of status 200 on a host
   that is not listed, with a path other than "" and "/" and no query, neither URL
   containing 'errors/404', resolves to the URL of the second hop. *)
C6_ListedShortenerChainResolves ==
  (fn = "canonical_link" /\ pc = "done" /\ Len(history) = 2
     /\ short_link_hop(history[1], urlparse(history[1].url))
     /\ content_hop(history[2], urlparse(history[2].url)))
    => result = Some(history[2].url)

\* the chain from 'https://bit.ly/x' to the article was resolved to the article
C6_Witness ==
  /\ fn = "canonical_link"
  /\ pc = "done"
  /\ history = << Hop(301, U_bitly), Hop(200, U_article) >>
  /\ result = Some(U_article)

\* the two URLs are the same up to their query strings
same_place(u1, u2) ==
  before(u1, <<"?">>) = before(u2, <<"?">>)

\* the request held out parameter k and ended, off the bare domain, where URL u is
probe_kept_place(r, k, u, final_parsed) ==
  /\ r.by = "trim_get_parameters"
  /\ r.held_out = Some(k)
  /\ final_parsed.query # <<>> \/ final_parsed.path \notin { <<>>, <<"/">> }
  /\ same_place(r.final[1], u)

\* some probe so far held out k and kept the place of u
probed_alone(k, u) ==
  \E j \in 1..Len(requests) :
    /\ requests[j].final # None
    /\ probe_kept_place(requests[j], k, u, urlparse(requests[j].final[1]))

(* C7 as stated: for every server, a HEAD request (redirects followed) on the URL that
   trim_get_parameters returned, the input without all the parameters marked safe to drop,
   ends at a URL whose query-stripped form is that of the input. *)
C7_ReturnedUrlResolvesAlike ==
  pc = "verified" => same_place(verify[1], input)

(* C7, amended: every parameter that trim_get_parameters marks safe to drop was held out in
   a probe of its own whose response ended, off the bare domain, at a URL with the
   query-stripped form of the input.  With a server that answers a URL as it answered it
   before, a HEAD request on the returned URL ends at such a URL when at most one parameter
   was marked; the URL without two or more marked parameters was never requested. *)
C7_EachRemovalProbedAlone ==
  /\ \A n \in 1..Len(ditch_params) : probed_alone(ditch_params[n], t_url)
  /\ (pc = "verified" /\ Len(ditch_params) <= 1) => same_place(verify[1], input)

\* one parameter was removed and the URL returned resolved as the input does
C7_Witness ==
  /\ pc = "verified"
  /\ input = T_two
  /\ Len(ditch_params) = 1
  /\ result # Some(input)
  /\ same_place(verify[1], input)

TIMEOUTS ==
  { "ConnectTimeout", "ReadTimeout" }

\* the names of the parameters in the query of URL u
parameter_names(items) ==
  { items[j].k : j \in 1..Len(items) }

has_parameter(u, k) ==
  k \in parameter_names(parse_qs(urlparse(u).query))

(* C8: when the probe for a parameter fails with a timeout (connect or read), the parameter
   is kept in the returned URL, the scan goes on with the remaining parameters and no
   exception leaves trim_get_parameters. *)
C8_TimeoutKeepsParameter ==
  /\ ~(pc = "raised" /\ exc \in TIMEOUTS)
  /\ pc = "done" =>
       \A j \in 1..Len(requests) :
         (requests[j].by = "trim_get_parameters" /\ requests[j].outcome \in TIMEOUTS)
           => has_parameter(result[1], requests[j].held_out[1])

\* the name contains 'document', 'article', 'id' or 'qs', whatever the case of its letters
skip_listed_name(k) ==
  \E word \in { S_document, S_article, S_id, S_qs } : contains(lower(k), word)

\* the value contains 'html' or 'http'
skip_listed_value(val) ==
  \E word \in { S_html, S_http } : contains(val, word)

\* no probe so far held out parameter k
never_held_out(k) ==
  \A j \in 1..Len(requests) : requests[j].held_out # Some(k)

\* the query of URL u has parameter k with value val
has_pair(pairs, k, val) ==
  \E j \in 1..Len(pairs) : pairs[j] = << k, val >>

\* parameter k with value val was not held out, and is in the URL returned if one was
kept_untouched(k, val) ==
  /\ never_held_out(k)
  /\ pc = "done" => has_pair(parse_qsl(urlparse(result[1]).query), k, val)

\* every skip-listed value of items, among those that pass covered, is kept untouched
skip_listed_kept(items, covered(_)) ==
  \A n \in 1..Len(items) : \A m \in 1..Len(items[n].v) :
    (covered(items[n]) /\ (skip_listed_name(items[n].k) \/ skip_listed_value(items[n].v[m])))
      => kept_untouched(items[n].k, items[n].v[m])

(* C9 as stated: a query parameter whose name contains (in any case) 'document', 'article',
   'id' or 'qs', or whose value contains 'html' or 'http', is never the held-out parameter
   of a probe and is always present with its value in the URL returned. *)
C9_SkipListedAlwaysKept ==
  t_url # <<>> =>
    LET any(item) == TRUE
    IN  skip_listed_kept(parse_qs(urlparse(t_url).query), any)

(* C9, amended: a parameter that occurs with one non-blank value in the query, and whose
   name contains (in any case) 'document', 'article', 'id' or 'qs' or whose value contains
   'html' or 'http', is never the held-out parameter of a probe and is present with its
   decoded value in the URL returned, whatever happens to the other parameters. *)
C9_SingleValuedSkipListedKept ==
  t_url # <<>> =>
    LET single(item) == Len(item.v) = 1
    IN  skip_listed_kept(parse_qs(urlparse(t_url).query), single)

\* 'Id' and 'u' (a URL) were skipped and kept while 'r' was removed
C9_Witness ==
  /\ fn = "trim_get_parameters"
  /\ pc = "done"
  /\ input = T_mixed
  /\ ditch_params = << <<"r">> >>
  /\ has_parameter(result[1], <<"I", "d">>)
  /\ has_parameter(result[1], <<"u">>)
  /\ ~has_parameter(result[1], <<"r">>)

\* the decoded (name, value) pairs of a query string, those with a blank value included
written_pairs(qs) ==
  LET written(piece) == piece # <<>>
  IN  decoded(SelectSeq(split(qs, <<"&">>), written))

\* the decoded (name, value) pairs whose name occurs once and is not in ditch
unmarked_single_pairs(pairs, ditch) ==
  LET once(pair) ==
        /\ Cardinality({ n \in 1..Len(pairs) : pairs[n][1] = pair[1] }) = 1
        /\ \A n \in 1..Len(ditch) : ditch[n] # pair[1]
  IN  SelectSeq(pairs, once)

\* the two parsed URLs have the same scheme, host and path
same_endpoint(p1, p2) ==
  p1.scheme = p2.scheme /\ p1.netloc = p2.netloc /\ p1.path = p2.path

\* no request was made by trim_get_parameters
no_probe ==
  \A j \in 1..Len(requests) : requests[j].by # "trim_get_parameters"

\* with nothing marked the input comes back as it is, without any request if it has no query
unmarked_unchanged(in_parsed) ==
  /\ pc = "done" => result = Some(t_url)
  /\ in_parsed.query = <<>> => no_probe

\* C10 as stated, for a call that marked a parameter: every parameter written once is kept
written_pairs_kept(in_parsed, out_parsed) ==
  /\ same_endpoint(in_parsed, out_parsed)
  /\ written_pairs(out_parsed.query) = unmarked_single_pairs(written_pairs(in_parsed.query),
                                                            ditch_params)

\* the amended statement for such a call: the query has the same decoded parameters
decoded_pairs_kept(in_parsed, out_parsed) ==
  /\ same_endpoint(in_parsed, out_parsed)
  /\ parse_qsl(out_parsed.query) = unmarked_single_pairs(parse_qsl(in_parsed.query),
                                                        ditch_params)

(* C10 as stated: trim_get_parameters returns its input unchanged when no parameter was
   marked (and makes no request when there is no query); otherwise the URL returned has the
   scheme, host and path of the input and its query consists of exactly the single-valued
   parameters of the input that were not marked, in their order, with their original
   (decoded) values. *)
C10_ExactlyUnmarkedSingleValued ==
  t_url # <<>> =>
    IF ditch_params = <<>>
    THEN unmarked_unchanged(urlparse(t_url))
    ELSE pc = "done" => written_pairs_kept(urlparse(t_url), urlparse(result[1]))

(* C10, amended: trim_get_parameters returns its input unchanged when no parameter was
   marked (and makes no request when there is no query); otherwise the URL returned has the
   scheme, host and path of the input and the parameters of its query are exactly those of
   the input that have a non-blank value, occur once and were not marked, in their order,
   each with the same decoded name and value (written again as urlencode writes them). *)
C10_UnmarkedSingleNonBlank ==
  t_url # <<>> =>
    IF ditch_params = <<>>
    THEN unmarked_unchanged(urlparse(t_url))
    ELSE pc = "done" => decoded_pairs_kept(urlparse(t_url), urlparse(result[1]))

\* 'r' was removed from the URL with multi-valued and blank parameters
C10_Witness ==
  /\ fn = "trim_get_parameters"
  /\ pc = "done"
  /\ input = T_multi
  /\ ditch_params = << <<"r">> >>
  /\ result = Some(before(T_multi, <<"?">>))

\* the parameter is on the skip list of lines 586-593, by its name or by its value
skipped(k, val) ==
  skip_listed_name(k) \/ skip_listed_value(lower(val))

\* parameter k was marked safe to drop
marked(k) ==
  \E n \in 1..Len(ditch_params) : ditch_params[n] = k

\* the parameter is out of the URL returned if it was marked, and in it if it was not
removed_iff_marked(k, val, pairs) ==
  IF marked(k) THEN \A j \in 1..Len(pairs) : pairs[j][1] # k
  ELSE has_pair(pairs, k, val)

\* every single-valued parameter of items that is not skipped is marked by its probe alone
marked_by_own_probe(items) ==
  \A n \in 1..Len(items) :
    (Len(items[n].v) = 1 /\ ~skipped(items[n].k, items[n].v[1])) =>
      /\ marked(items[n].k) <=> probed_alone(items[n].k, t_url)
      /\ pc = "done" =>
           removed_iff_marked(items[n].k, items[n].v[1],
                              parse_qsl(urlparse(result[1]).query))

(* C11: a single-valued parameter that is not skipped is marked safe to drop, and so removed
   from the result, if and only if the probe of the URL without it returned a response whose
   final URL has a non-empty query or a non-root path and whose query-stripped form is that
   of the original URL; for 'https://httpbin.org/status/200?param=1' probed at
   'https://httpbin.org/status/200' the result is 'https://httpbin.org/status/200'. *)
C11_MarkedIffProbeKeptPlace ==
  /\ t_url # <<>> => marked_by_own_probe(parse_qs(urlparse(t_url).query))
  /\ (pc = "done" /\ input = T_param /\ requests[1].final = Some(T_plain))
       => result = Some(T_plain)

\* the example: 'param' was probed, the probe ended at the plain URL, which is returned
C11_Witness ==
  /\ fn = "trim_get_parameters"
  /\ pc = "done"
  /\ input = T_param
  /\ requests[1].final = Some(T_plain)
  /\ ditch_params = << <<"p", "a", "r", "a", "m">> >>
  /\ result = Some(T_plain)

\* no parameter of items with several values was held out or marked
multi_valued_left_alone(items) ==
  \A n \in 1..Len(items) :
    Len(items[n].v) > 1 => never_held_out(items[n].k) /\ ~marked(items[n].k)

(* C12: a parameter that occurs more than once in the query is dropped from consideration:
   it is never the held-out parameter of a probe (no HEAD request is made on its behalf)
   and it is never marked safe to drop. *)
C12_MultiValuedNeverProbed ==
  t_url # <<>> => multi_valued_left_alone(parse_qs(urlparse(t_url).query))

\* the first request of the outermost canonical_link call asks for URL u
first_request_is(rs, u) ==
  rs # <<>> => rs[1].url = u

(* C13: canonical_link requests the input unchanged when it begins with 'http://' or
   'https://' and requests 'http://' + input for every input without such a prefix, an
   input such as 'httpbin.org/status/200', whose host begins with 'http', included. *)
C13_RequestsSchemeNormalizedInput ==
  fn = "canonical_link" => first_request_is(own_requests(0), scheme_normalized(input))

\* the URLs on which the calls waiting in cs were made
urls_called(cs) ==
  { cs[j].url : j \in 1..Len(cs) }

(* C14: the chain of embedded-URL restarts is finite, and so every canonical_link call
   returns, because each restart is made on a URL different from the URL of the call that
   restarts and of every earlier call of the chain. *)
C14_RestartUrlIsNew ==
  (fn = "canonical_link" /\ pc = "call") => url \notin urls_called(callers)

\* the URLs of the hops of h up to hop number n
urls_up_to(h, n) ==
  { h[j].url : j \in { m \in 1..Len(h) : m <= n } }

(* C15: at every step of the hop walk last_good_url is the URL of a hop of the history at or
   before the hop examined (the first hop's URL at the start), never a URL that the history
   does not hold.  If no response was obtained the value returned is the scheme-normalized
   input. *)
C15_LastGoodUrlObserved ==
  fn = "canonical_link" =>
    /\ pc \in {"walk", "after_walk"} => last_good_url \in urls_up_to(history, i)
    /\ (pc = "done" /\ callers = <<>> /\ history = <<>>)
         => result = Some(scheme_normalized(input))


\* ------------------------------------------------------------------ C16

\* a call extract_domain_from_url(input, include_subdomain) on the URL as it is has returned
extracted_as_is ==
  fn = "extract_domain_from_url" /\ pc = "returned" /\ ~resolve_url

(* C16: for every pair (shortened, expanded) of VANITY_LINK_SHORTENERS, the historical
   entries included, extract_domain_from_url("http://" + shortened,
   include_subdomain=False) returns expanded. *)
C16_EveryShortenerExpands ==
  (extracted_as_is /\ ~include_subdomain)
    => \A p \in VANITY_LINK_SHORTENERS :
         input = S_http_prefix \o p[1] => result = Some(p[2])

\* ------------------------------------------------------------------ C17

\* a call of extract_domain_from_url has returned
extracted ==
  fn = "extract_domain_from_url" /\ pc = "returned"

\* domain.suffix of an ExtractResult
registrable(d) ==
  dotted(<<d.domain, d.suffix>>)

\* subdomain.domain.suffix of an ExtractResult
whole_host(d) ==
  dotted(<<d.subdomain, d.domain, d.suffix>>)

\* the expansion the table gives for its key k
expansion_of(k) ==
  (CHOOSE p \in VANITY_LINK_SHORTENERS : p[1] = k)[2]

\* the table's answer for the name n: its expansion if it is a key, n itself if not
looked_up(n) ==
  IF n \in VANITY_KEYS THEN expansion_of(n) ELSE n

\* the host with the parts d has a key of the table for registrable domain
on_shortener_domain(d) ==
  registrable(d) \in VANITY_KEYS

shortener_domain_expanded(d, r) ==
  on_shortener_domain(d) => r = Some(expansion_of(registrable(d)))

shortener_host_looked_up(d, include, r) ==
  on_shortener_domain(d) =>
    IF include /\ d.subdomain \notin {<<>>, S_www}
    THEN r = Some(looked_up(whole_host(d)))
    ELSE r = Some(expansion_of(registrable(d)))

(* C17 (as stated): for every URL whose registrable domain is a key of
   VANITY_LINK_SHORTENERS, extract_domain_from_url returns the mapped expansion, for both
   values of include_subdomain and whatever subdomain the host carries. *)
C17_AnySubdomainExpands ==
  extracted => shortener_domain_expanded(tldextract(url), result)

(* C17 (amended): for every URL whose registrable domain is a key of
   VANITY_LINK_SHORTENERS, extract_domain_from_url returns the mapped expansion when
   include_subdomain is false or the subdomain is empty or "www"; with include_subdomain
   true and any other subdomain the name looked up is subdomain.domain.suffix, which is
   returned as it is unless it is a key itself. *)
C17_RegistrableNameExpands ==
  extracted => shortener_host_looked_up(tldextract(url), include_subdomain, result)

\* "youtube.com"
S_youtube ==
  <<"y","o","u","t","u","b","e",".","c","o","m">>

C17_Witness ==
  /\ extracted /\ include_subdomain
  /\ url = D_youtube_www
  /\ result = Some(S_youtube)

\* ------------------------------------------------------------------ C18

\* the name the claim describes for the parts d, before the table is consulted
described_name(d, include) ==
  IF include /\ d.subdomain # <<>> /\ d.subdomain # S_www THEN whole_host(d) ELSE registrable(d)

\* the results that tests/http.py (lines 168-174) expects, as <<url, include_subdomain, domain>>
EXPECTED_DOMAINS ==
  { <<D_hn, FALSE, <<"y","c","o","m","b","i","n","a","t","o","r",".","c","o","m">>>>,
    <<D_hn, TRUE, <<"n","e","w","s",".","y","c","o","m","b","i","n","a","t","o","r",".","c","o","m">>>>,
    <<D_bbc, TRUE, <<"f","o","r","u","m","s",".","b","b","c",".","c","o",".","u","k">>>>,
    <<D_bbc, FALSE, <<"b","b","c",".","c","o",".","u","k">>>>,
    <<D_worldbank, TRUE, <<"w","o","r","l","d","b","a","n","k",".","o","r","g",".","k","g">>>>,
    <<D_cnn, TRUE, <<"f","o","r","u","m","s",".","n","e","w","s",".","c","n","n",".","c","o","m">>>>,
    <<D_cnn, FALSE, <<"c","n","n",".","c","o","m">>>> }

as_expected(u, include, r) ==
  \A e \in EXPECTED_DOMAINS : (e[1] = u /\ e[2] = include) => r = Some(e[3])

(* C18: without resolve_url, extract_domain_from_url returns subdomain.domain.suffix
   exactly when include_subdomain is true and the parsed subdomain is neither empty nor
   "www" (a subdomain of several labels is kept whole), and domain.suffix in every other
   case, the name being replaced by its expansion when it is a key of
   VANITY_LINK_SHORTENERS. *)
C18_SubdomainKeptUnlessWww ==
  extracted_as_is =>
    /\ result = Some(looked_up(described_name(tldextract(input), include_subdomain)))
    /\ as_expected(input, include_subdomain, result)

C18_Witness ==
  /\ extracted_as_is /\ include_subdomain
  /\ input = D_cnn
  /\ result = Some(<<"f","o","r","u","m","s",".","n","e","w","s",".","c","n","n",".","c","o","m">>)

\* ------------------------------------------------------------------ C19

\* extracting the domain of the name n again, with the same include_subdomain, gives n
extracts_to_itself(n, include) ==
  extract_domain(n, include) = n

\* no expansion of the table is a key of the table
no_chained_expansion ==
  \A p \in VANITY_LINK_SHORTENERS : p[2] \notin VANITY_KEYS

(* C19: domain extraction is idempotent: for every URL u and each value s of
   include_subdomain, extract_domain_from_url(extract_domain_from_url(u, s), s) =
   extract_domain_from_url(u, s) without resolve_url; no expansion in
   VANITY_LINK_SHORTENERS is itself a key, so the substitution never chains. *)
C19_ExtractionIdempotent ==
  extracted_as_is => (extracts_to_itself(result[1], include_subdomain) /\ no_chained_expansion)

\* "pewresearch.org"
S_pewresearch ==
  <<"p","e","w","r","e","s","e","a","r","c","h",".","o","r","g">>

C19_Witness ==
  /\ extracted_as_is
  /\ input = D_pew
  /\ result = Some(S_pewresearch)
  /\ extract_domain(S_pewresearch, include_subdomain) = S_pewresearch

\* ------------------------------------------------------------------ C20

\* a call hash_url(input) has returned
hashed ==
  fn = "hash_url" /\ pc = "returned"

\* s begins with "http://" or "https://"
has_http_prefix(s) ==
  startswith(s, S_http_prefix) \/ startswith(s, S_https_prefix)

\* u with and without a scheme in front, in every letter case that recased gives
scheme_and_case_variants(u) ==
  recased(u) \cup recased(S_http_prefix \o u) \cup recased(S_https_prefix \o u)

\* every string of the set has the hash h
all_hash_to(strings, h) ==
  \A w \in strings : hash_url(w) = h

\* the digest documented for "www.example.com" (lines 32-35)
DOCUMENTED_HASH ==
  <<"7","c","1","7","6","7","b","3","0","5","1","2","b","6","0","0","3","f","d","3","c","2","e","6","1","8","a","8","6","5","2","2">>

(* C20 (as stated): for every string u that does not itself begin with "http://" or
   "https://", hash_url(u), hash_url("http://" + u) and hash_url("https://" + u) are
   equal, and stay equal when the case of any letter of the argument is changed. *)
C20_SchemeAndCaseInvariant ==
  (hashed /\ ~has_http_prefix(input))
    => all_hash_to(scheme_and_case_variants(input), result[1])

(* C20 (amended): for every string u that does not begin with "http://" or "https://" in
   any letter case, hash_url(u), hash_url("http://" + u) and hash_url("https://" + u) are
   equal, and stay equal when the case of any letter of the argument is changed;
   hash_url("http://www.example.com") = hash_url("www.example.com"), the documented
   digest. *)
C20_InvariantForSchemelessStrings ==
  /\ (hashed /\ ~has_http_prefix(str_lower(input)))
       => all_hash_to(scheme_and_case_variants(input), result[1])
  /\ (hashed /\ input \in {H_example, S_http_prefix \o H_example})
       => result = Some(DOCUMENTED_HASH)

C20_Witness ==
  /\ hashed
  /\ input = H_example
  /\ result = Some(DOCUMENTED_HASH)
  /\ hash_url([k \in 1..Len(S_https_prefix \o H_example) |-> uppered((S_https_prefix \o H_example)[k])]) = DOCUMENTED_HASH

\* ------------------------------------------------------------------ C21

\* the session the caller supplied is the one in use, and it is open
caller_session_open ==
  session_given => (session = "caller" /\ "caller" \in open_sessions)

(* C21: no call of canonical_link, trim_get_parameters or extract_domain_from_url changes
   shared state: nothing is written to GENERAL_LINK_SHORTENERS or VANITY_LINK_SHORTENERS,
   and a session supplied by the caller is never closed, neither by the call nor by the
   nested trim_get_parameters and recursive canonical_link calls that receive it. *)
C21_SharedStateUntouched ==
  table_writes = {} /\ caller_session_open

C21_Witness ==
  /\ session_given
  /\ pc = "done"
  /\ callers # <<>>
  /\ t_nested
  /\ "caller" \in open_sessions

\* ------------------------------------------------------------------ C22

\* the status code of the final response of the redirect chain
final_status(h) ==
  h[Len(h)].status_code

\* the step made is the call of trim_get_parameters by canonical_link (lines 532-534)
trimming_entered ==
  pc' \in {"trim_loop", "trim_end"}

(* C22: after the hop walk, canonical_link passes the accepted URL through
   trim_get_parameters if and only if the status code of the final response of the
   redirect chain (the last hop) is not in the bad-status set, also when the walk stopped
   at an earlier hop whose own status code differs from the final one. *)
C22_TrimsIffFinalStatusGood ==
  [][pc = "after_walk" => (trimming_entered <=> final_status(history) \notin BAD_STATUS_CODES)]_vars

\* ------------------------------------------------------------------ C23

\* lines 433-434 and 473-474: good_path or good_query, for a hop and the first hop, both parsed
good_path_or_query(parsed, original_parsed) ==
  \/ original_parsed.path \in { <<"/">>, <<>> }
  \/ parsed.path \notin { <<"/">>, <<>> }
  \/ original_parsed.query = <<>>
  \/ parsed.query # <<>>

(* the hop resp, number n of the walk, parsed, is one the claims on rule (b) speak of: not
   the first, not on a shortener host, with a status code of CHECK_LENGTH, a good path or
   a good query, and not accepted under rule (a) *)
under_rule_b(n, resp, parsed, original_parsed, good_url) ==
  /\ n # 1
  /\ ~is_shortener(parsed)
  /\ resp.status_code \in CHECK_LENGTH
  /\ good_path_or_query(parsed, original_parsed)
  /\ ~same_link(resp.url, parsed, good_url, original_parsed)

\* such a hop, which moreover the walk takes as far as the heuristic of lines 495-509
tested_by_heuristic(n, resp, parsed, original_parsed, good_url) ==
  /\ under_rule_b(n, resp, parsed, original_parsed, good_url)
  /\ ~is_error_page(resp.url)
  /\ embedded_url(parsed.query) = None

\* the heuristic's verdict on the hop, given the first hop parsed
hop_flagged_bad(parsed, original_parsed, p_path, p_query) ==
  flagged_bad(original_parsed.path \notin { <<"/">>, <<>> }, original_parsed.query # <<>>,
              parsed, p_path, p_query)

\* the walk stands at a hop that the heuristic rejects
rejected_by_heuristic(resp, parsed, original_parsed) ==
  /\ tested_by_heuristic(i, resp, parsed, original_parsed, last_good_url)
  /\ hop_flagged_bad(parsed, original_parsed, prev_path, prev_query)
  /\ ~prev_was_shortener

rejecting_step ==
  /\ pc = "walk"
  /\ rejected_by_heuristic(history[i], urlparse(history[i].url), urlparse(history[1].url))
  /\ pc' = "walk"

(* C23: after a hop has been rejected by the landing-page heuristic (flagged bad, previous
   hop not a shortener) the walk continues with the path/query memory reset: the next hop
   is tested with empty (null) previous-path and previous-query values, not with the path
   and query of the rejected hop. *)
C23_RejectionResetsMemory ==
  [][rejecting_step => (prev_path' = None /\ prev_query' = None)]_vars

\* ------------------------------------------------------------------ C24

(* the hop is flagged bad as the claim words it, for the hop, the first hop and the hop
   before it, all parsed *)
described_bad(parsed, original_parsed, previous_parsed) ==
  \/ /\ original_parsed.path \notin { <<"/">>, <<>> }
     /\ Len(parsed.netloc) > 7
     /\ Len(parsed.path) < 20
     /\ parsed.query = <<>>
     /\ parsed.path # previous_parsed.path
  \/ /\ original_parsed.query # <<>>
     /\ Len(parsed.netloc) > 7
     /\ Len(parsed.query) < 20
     /\ Len(parsed.path) <= 1
     /\ parsed.query # previous_parsed.query

\* the step rejects the hop (the walk goes on to the next hop) or accepts it, as described
decided_as_described(resp, parsed, original_parsed, previous_parsed) ==
  IF ~is_shortener(previous_parsed) /\ described_bad(parsed, original_parsed, previous_parsed)
  THEN last_good_url' = last_good_url /\ i' = i + 1
  ELSE last_good_url' = resp.url /\ i' = i + 1

rule_b_step ==
  /\ pc = "walk"
  /\ under_rule_b(i, history[i], urlparse(history[i].url), urlparse(history[1].url), last_good_url)

heuristic_step ==
  /\ pc = "walk"
  /\ tested_by_heuristic(i, history[i], urlparse(history[i].url), urlparse(history[1].url), last_good_url)

decided_step ==
  decided_as_described(history[i], urlparse(history[i].url), urlparse(history[1].url), urlparse(history[i - 1].url))

(* C24 (as stated): a non-first, non-shortener hop with a status code of {301,302,200,404}
   that has a good path or a good query and is not accepted under rule (a) is rejected
   (last_good_url unchanged, the walk goes on) exactly when the previous hop was not a
   shortener and the hop is flagged bad; in every other case its URL becomes
   last_good_url. *)
C24_RuleBHopDecidedByHeuristic ==
  [][rule_b_step => decided_step]_vars

(* C24 (amended): the same, for a hop whose URL does not contain "errors/404" and whose
   query carries no embedded URL: a hop with "errors/404" in its URL stops the walk and a
   hop with an embedded URL restarts canonical_link before the heuristic is consulted. *)
C24_TestedHopDecidedByHeuristic ==
  [][heuristic_step => decided_step]_vars

\* a hop directly after a shortener hop was accepted although the heuristic flags it
C24_Witness ==
  /\ fn = "canonical_link"
  /\ pc = "walk"
  /\ i = 3
  /\ history[1].url = U_bitly
  /\ history[2] = Hop(404, U_home)
  /\ last_good_url = U_home

\* ------------------------------------------------------------------ C25

(* the hop resp, number n of the walk, parsed, is not on a shortener host, has status code
   307 or 407, and no embedded URL restarts canonical_link at it *)
proxy_hop(n, resp, parsed) ==
  /\ resp.status_code \in {307, 407}
  /\ ~is_shortener(parsed)
  /\ (n = 1 \/ embedded_url(parsed.query) = None)

at_proxy_hop ==
  /\ pc \in {"walk", "after_walk", "finish", "done"}
  /\ i \in 1..Len(history)
  /\ proxy_hop(i, history[i], urlparse(history[i].url))

no_trimming_probe ==
  \A j \in 1..Len(requests) : requests[j].by # "trim_get_parameters"

\* the walk ends at hop i with its URL accepted
accepted_as_final ==
  /\ pc' = "after_walk"
  /\ i' = i
  /\ last_good_url' = history[i].url

\* the call that stopped at hop i returns its URL, without a trimming probe
returns_hop_url ==
  /\ pc \in {"after_walk", "finish"} => last_good_url = history[i].url
  /\ pc = "done" => result = Some(history[i].url)
  /\ pc # "walk" => (~t_nested /\ no_trimming_probe)

(* C25 (as stated): when the walk reaches a non-shortener hop with status code 307 or 407
   and no embedded-URL restart fires at it, that hop's URL is the URL canonical_link
   returns: it is accepted whatever its path and query, no later hop is examined and no
   parameter-trimming probe is issued. *)
C25_ProxyHopIsReturned ==
  /\ [][(pc = "walk" /\ at_proxy_hop) => accepted_as_final]_vars
  /\ [](at_proxy_hop => returns_hop_url)

(* C25 (amended): the same, for a hop whose URL does not contain "errors/404"; at a hop
   with "errors/404" in its URL the walk stops without accepting it, whatever its status
   code. *)
C25_ProxyHopOffErrorPageIsReturned ==
  /\ [][(pc = "walk" /\ at_proxy_hop /\ ~is_error_page(history[i].url)) => accepted_as_final]_vars
  /\ []((at_proxy_hop /\ ~is_error_page(history[i].url)) => returns_hop_url)

C25_Witness ==
  /\ fn = "canonical_link"
  /\ pc = "done"
  /\ Len(history) = 3
  /\ i = 2
  /\ history[2] = Hop(407, U_home)
  /\ result = Some(U_home)

\* ------------------------------------------------------------------ C26

\* u and v are equal once every "https" is read as "http"
equal_up_to_scheme(u, v) ==
  re_sub(S_https, S_http, u) = re_sub(S_https, S_http, v)

\* u and v are equal once both are put in lower case
equal_up_to_case(u, v) ==
  lower(u) = lower(v)

(* the hop resp, parsed, is not on a shortener host, has a good path or a good query, and
   its URL is good_url up to the scheme or up to letter case, or its path is the path of
   the first hop *)
under_rule_a(resp, parsed, original_parsed, good_url) ==
  /\ ~is_shortener(parsed)
  /\ good_path_or_query(parsed, original_parsed)
  /\ \/ equal_up_to_scheme(resp.url, good_url)
     \/ equal_up_to_case(resp.url, good_url)
     \/ parsed.path = original_parsed.path

rule_a_step ==
  /\ pc = "walk"
  /\ under_rule_a(history[i], urlparse(history[i].url), urlparse(history[1].url), last_good_url)

\* nothing ends the iteration before rule (a) is consulted
reaches_rule_a(n, resp, parsed) ==
  /\ ~is_error_page(resp.url)
  /\ (n = 1 \/ embedded_url(parsed.query) = None)
  /\ resp.status_code \notin {307, 407}

accepted_and_walked_on ==
  last_good_url' = history[i].url /\ i' = i + 1

(* C26 (as stated): a non-shortener hop whose URL equals last_good_url up to http/https
   and letter-case differences, or whose path equals the path of the first hop, is
   accepted as last_good_url provided it has a good path or a good query, whatever its
   status code, and the walk continues with the next hop. *)
C26_SameLinkAccepted ==
  [][rule_a_step => accepted_and_walked_on]_vars

(* C26 (amended): the same, for a hop whose URL does not contain "errors/404", whose
   query carries no embedded URL (if it is not the first hop) and whose status code is
   neither 307 nor 407; the URL equals last_good_url up to http/https differences alone
   or up to letter case alone. *)
C26_SameLinkAcceptedAtRuleA ==
  [][(rule_a_step /\ reaches_rule_a(i, history[i], urlparse(history[i].url))) => accepted_and_walked_on]_vars

\* a response with status 500 was accepted for being the accepted URL under the other scheme
C26_Witness ==
  /\ fn = "canonical_link"
  /\ pc = "after_walk"
  /\ Len(history) = 3
  /\ i = 4
  /\ history[2] = Hop(200, U_article)
  /\ history[3] = Hop(500, U_article_http)
  /\ last_good_url = U_article_http

\* ------------------------------------------------------------------ C27

\* the bad-status set, as the description of rule (c) lists it
LISTED_BAD_STATUS ==
  { 302, 307, 400, 404, 405, 407, 500, 501, 502, 503, 504, 520, 530 }

\* a non-shortener hop with neither a good path nor a good query
bare_domain_hop(parsed, original_parsed) ==
  /\ ~is_shortener(parsed)
  /\ ~good_path_or_query(parsed, original_parsed)

(* the hop resp, number n of the walk, falls under rule (c) with a bad status: no earlier
   rule takes it, it has a good path or a good query, rules (a) and (b) do not apply, and
   its status code is in the bad-status set *)
bad_under_rule_c(n, resp, parsed, original_parsed, good_url) ==
  /\ reaches_rule_a(n, resp, parsed)
  /\ ~is_shortener(parsed)
  /\ good_path_or_query(parsed, original_parsed)
  /\ ~under_rule_a(resp, parsed, original_parsed, good_url)
  /\ (n = 1 \/ resp.status_code \notin {200, 301, 302, 404})
  /\ resp.status_code \in LISTED_BAD_STATUS

bare_domain_step ==
  /\ pc = "walk"
  /\ bare_domain_hop(urlparse(history[i].url), urlparse(history[1].url))

bad_rule_c_step ==
  /\ pc = "walk"
  /\ bad_under_rule_c(i, history[i], urlparse(history[i].url), urlparse(history[1].url), last_good_url)

\* the walk ends at hop i, which is not accepted, and the hops after it are not examined
stopped_without_accepting ==
  /\ pc' = "after_walk"
  /\ i' = i
  /\ last_good_url' = last_good_url

(* C27 (as stated): when the walk reaches a non-shortener hop that has neither a good path
   nor a good query, or a hop that falls under rule (c) with a status code of the
   bad-status set, the walk stops at that hop without accepting it: last_good_url keeps
   its value and no later hop is examined. *)
C27_BareDomainOrBadStatusStops ==
  [][(bare_domain_step \/ bad_rule_c_step) => stopped_without_accepting]_vars

(* C27 (amended): the same, for a bare-domain hop whose status code is neither 307 nor
   407. *)
C27_UnproxiedBareDomainOrBadStatusStops ==
  [][((bare_domain_step /\ history[i].status_code \notin {307, 407}) \/ bad_rule_c_step)
       => stopped_without_accepting]_vars

\* the walk stopped at a bare domain reached from a URL with a path and a query
C27_Witness ==
  /\ fn = "canonical_link"
  /\ pc = "after_walk"
  /\ Len(history) = 3
  /\ i = 2
  /\ history[1] = Hop(200, U_query)
  /\ history[2] = Hop(404, U_home)
  /\ last_good_url = U_query

\* ------------------------------------------------------------------ C28

\* the host of u is an entry of GENERAL_LINK_SHORTENERS or a key of VANITY_LINK_SHORTENERS
on_shortener_host(u) ==
  LET host == urlparse(u).netloc
  IN  \/ host \in GENERAL_LINK_SHORTENERS
      \/ \E entry \in VANITY_LINK_SHORTENERS : entry[1] = host

\* the walk examines hop i and goes on in the same call
walk_step ==
  pc = "walk" /\ pc' \in {"walk", "after_walk"}

\* a step of the walk at a hop on a shortener host leaves last_good_url alone
shortener_hop_skipped ==
  (walk_step /\ on_shortener_host(history[i].url)) => last_good_url' = last_good_url

\* a step of the walk that changes last_good_url sets it to the hop, off the shortener hosts
accepted_off_shorteners ==
  (walk_step /\ last_good_url' # last_good_url)
    => (last_good_url' = history[i].url /\ ~on_shortener_host(last_good_url'))

\* the accepted URL is on a shortener host only if it is the URL of the first hop
shortener_only_as_first ==
  (pc \in {"walk", "after_walk"} /\ on_shortener_host(last_good_url))
    => last_good_url = history[1].url

\* at a hop after the first, prev_was_shortener tells whether the hop before was a shortener
tracks_previous_hop ==
  (pc = "walk" /\ i >= 2 /\ i <= Len(history))
    => (prev_was_shortener <=> on_shortener_host(history[i - 1].url))

(* C28: a hop whose host is an entry of GENERAL_LINK_SHORTENERS or a key of
   VANITY_LINK_SHORTENERS is never accepted during the walk but still updates the
   shortener-tracking state: the URL accepted at the end of the walk is on a shortener
   host only if it is the first hop's URL and no later hop was accepted, and at each hop
   after the first prev_was_shortener is true exactly when the hop immediately before it
   is on a shortener host. *)
C28_ShortenersSkippedButTracked ==
  /\ [][shortener_hop_skipped /\ accepted_off_shorteners]_vars
  /\ [](shortener_only_as_first /\ tracks_previous_hop)

\* a chain of three hops on bit.ly was walked to its end: the first URL stands
C28_Witness ==
  /\ fn = "canonical_link"
  /\ pc = "after_walk"
  /\ Len(history) = 3
  /\ \A j \in 1..3 : history[j] = Hop(301, U_bitly)
  /\ i = 4
  /\ last_good_url = U_bitly
  /\ prev_was_shortener

\* ------------------------------------------------------------------ C29

\* the task of every group has completed
every_task_completed ==
  /\ Len(jobs) = Len(grp.groups)
  /\ \A k \in 1..Len(jobs) : jobs[k].state = "done"
  /\ \A k \in 1..Len(grp.groups) : \E n \in 1..Len(finish_order) : finish_order[n] = k

\* the value func gives for the k-th group
value_of_group(k) ==
  apply_func(grp.func, grp.groups[k].rows, grp.add, grp.multiply)

\* the i-th value of the result belongs to the i-th group
ith_value_of_ith_group ==
  /\ Len(pool_result[1].items) = Len(grp.groups)
  /\ \A k \in 1..Len(grp.groups) :
       pool_result[1].items[k] = <<grp.groups[k].name, value_of_group(k).items[1]>>

\* the number of rows of the groups before the k-th
rows_before(k) ==
  Len(concat([l \in 1..(k - 1) |-> value_of_group(l)]))

\* the rows of the k-th group follow, in their order, those of the groups before it
concatenation_in_group_order ==
  /\ Len(pool_result[1].items) = rows_before(Len(grp.groups) + 1)
  /\ \A k \in 1..Len(grp.groups) : \A r \in 1..Len(grp.groups[k].rows) :
       pool_result[1].items[rows_before(k) + r] = value_of_group(k).items[r]

(* C29: multiprocess_group_apply returns only after the task of every group has
   completed, and its result lists the per-group results in the iteration order of the
   groups, whatever the order in which the worker processes start and finish: for an
   aggregating function the i-th value belongs to the i-th group, and for a row-mapping
   function the concatenation follows the group order. *)
C29_ResultsInGroupOrder ==
  pool_pc = "returned" =>
    /\ every_task_completed
    /\ grp.func = "_test_function_agg" => ith_value_of_ith_group
    /\ grp.func = "_test_function_map" => concatenation_in_group_order

\* the call returned although the task of the last group completed first
C29_Witness ==
  /\ pool_pc = "returned"
  /\ Len(grp.groups) = 3
  /\ grp.func = "_test_function_agg"
  /\ finish_order = <<3, 1, 2>>
  /\ pool_result = Some(Series(<< <<1, 6>>, <<2, 4>>, <<3, 4>> >>))

\* ------------------------------------------------------------------ C30

\* the k-th look at the file found bytes that pickle.loads refuses with a ValueError
failed_with_ValueError(k) ==
  reads[k].found # None /\ reads[k].found[1].kind = "insecure"

\* the k-th look at the file found a complete pickle
successful(k) ==
  reads[k].found # None /\ reads[k].found[1].kind = "pickle"

\* at most four reads, each but the first after a pause
at_most_four_reads ==
  Len(reads) <= 4 /\ Len(reads) <= sleeps + 1

\* read gave the caller the object of the first successful attempt
first_success_returned ==
  \A k \in 1..Len(reads) :
    (successful(k) /\ \A l \in 1..(k - 1) : ~successful(l))
      => read_result = Some([object |-> reads[k].found[1].version])

\* read gave the caller None when every attempt failed with a ValueError
none_when_all_failed ==
  (\A k \in 1..Len(reads) : failed_with_ValueError(k)) => read_result = None

(* C30: FileHandler.read with format 'pkl' always terminates when unpickling keeps
   failing with ValueError: the file is read at most 4 times in total (the initial
   attempt plus 3 retries, each after a pause), the result of the first successful
   attempt is returned, and if all attempts fail read returns None instead of raising. *)
C30_ReadRetriesAreBounded ==
  /\ <>(read_pc = "returned")
  /\ [](at_most_four_reads)
  /\ [](read_pc = "returned" => (first_success_returned /\ none_when_all_failed))

\* four attempts failed with a ValueError, each followed by a pause, and read returned None
C30_Witness ==
  /\ read_pc = "returned"
  /\ Len(reads) = 4
  /\ \A k \in 1..4 : failed_with_ValueError(k)
  /\ sleeps = 4
  /\ read_result = None
====
